---- MODULE Spec2Model ----
(***************************************************************************)
(* Ordered-set library of OganyanRV/Trees_implementation: the AVL tree,    *)
(* the red-black tree, the treap (CartesianTree), the splay tree and the   *)
(* skip list behind the common ITree contract, modelled as one state       *)
(* machine.  A set instance is a heap of nodes (owning left_/right_ links, *)
(* non-owning parent_ links) plus the members root_, begin_, end_, size_.  *)
(* Every method of the source is an operator from a set instance to the    *)
(* set instance it leaves behind, translated statement by statement.       *)
(***************************************************************************)
EXTENDS Integers, Sequences, FiniteSets, TLC

\* ------------------------------------------------------------------------
\* Bounds of the model
\* ------------------------------------------------------------------------
\* benchmarks_ holds the benchmarks 1..MaxBench.
MaxBench == 4
\* Elements are the integers 1..MaxKey.
MaxKey == 3
\* Extra heap cells beyond one per key and one sentinel (the node every
\* Insert allocates before it knows whether the key is a duplicate, nodes
\* the code fails to unlink, sentinels replaced by Clear).
ExtraNodes == 2
\* Calls made on the two sets after the second one was constructed.
MaxAfter == 1
\* Mutating calls made while the caller holds one cursor.
MaxHeld == 2
\* The keys 1..MaxWide are drawn when the AVL tree or the red-black tree is
\* run alone.
MaxWide == 4
\* Treap priorities are drawn from 1..MaxPrio (uint32 in the source).
MaxPrio == 2
\* Skip-list towers are capped at MaxLevel promoted levels.
MaxLevel == 2
\* size_ is a counter the calls can drive up without limit: insert is taken
\* while it is below this.
SizeCap == MaxKey + 1

Key == 1..MaxKey
\* nullptr, and the empty std::optional
Nil == 0
None == 0
\* The heap has room for two sets (a set and its copy).
NodeCap == 2 * (MaxKey + 1) + ExtraNodes
Node == 1..NodeCap
Ptr == 0..NodeCap
\* Fuel of every pointer-chasing loop: a loop that runs longer than the heap
\* has cells is running round a cycle and never ends.
Fuel == NodeCap + 2

\* ------------------------------------------------------------------------
\* Comparisons
\* ------------------------------------------------------------------------
\* operator<(const std::optional<T>&, const std::optional<T>&): the empty
\* optional is larger than every value.
OptLess(lhs, rhs) == lhs # None /\ (rhs = None \/ lhs < rhs)
\* std::operator<(const T&, const std::optional<U>&): v < opt.
StdValLessOpt(v, opt) == opt # None /\ v < opt
\* std::operator<(const std::optional<T>&, const U&): opt < v.
StdOptLessVal(opt, v) == opt = None \/ opt < v
\* rb_tree.h operator<(const T&, const std::optional<T>&).
RBValLessOpt(v, opt) == opt = None \/ v < opt

\* ------------------------------------------------------------------------
\* The heap of a binary-tree variant
\* ------------------------------------------------------------------------
\* st: "ok"; "throw" (the call left by an exception); "ub" (a null
\* shared_ptr was dereferenced); "hang" (a loop that never ends).
Bad(t) == t.st # "ok"
Crash(t) == IF Bad(t) THEN t ELSE [t EXCEPT !.st = "ub"]
Throw(t) == IF Bad(t) THEN t ELSE [t EXCEPT !.st = "throw"]
Hang(t) == IF Bad(t) THEN t ELSE [t EXCEPT !.st = "hang"]

SetLeft(t, n, x) ==
    IF Bad(t) THEN t ELSE IF n = Nil THEN Crash(t) ELSE [t EXCEPT !.left_[n] = x]
SetRight(t, n, x) ==
    IF Bad(t) THEN t ELSE IF n = Nil THEN Crash(t) ELSE [t EXCEPT !.right_[n] = x]
SetParent(t, n, x) ==
    IF Bad(t) THEN t ELSE IF n = Nil THEN Crash(t) ELSE [t EXCEPT !.parent_[n] = x]
SetAux(t, n, x) ==
    IF Bad(t) THEN t ELSE IF n = Nil THEN Crash(t) ELSE [t EXCEPT !.aux_[n] = x]
SetRoot(t, x) == IF Bad(t) THEN t ELSE [t EXCEPT !.root_ = x]
SetBegin(t, x) == IF Bad(t) THEN t ELSE [t EXCEPT !.begin_ = x]
SetEnd(t, x) == IF Bad(t) THEN t ELSE [t EXCEPT !.end_ = x]
SetSize(t, x) == IF Bad(t) THEN t ELSE [t EXCEPT !.size_ = x]

\* std::make_shared<Node>: a free cell.  The cell numbered like the key is
\* taken when it is free, the sentinel takes the first cell above the keys.
FreeCells(t) == Node \ t.alive
CanAlloc(t) == FreeCells(t) # {}
PickCell(t, want) ==
    IF want \in FreeCells(t) THEN want
    ELSE CHOOSE n \in FreeCells(t) : \A m \in FreeCells(t) : n <= m
\* Node(const T& value) / Node(): links empty, aux is the variant's field
\* (height_, is_red_, priority_).
NewNode(t, n, value, aux) ==
    [t EXCEPT !.alive = @ \cup {n}, !.left_[n] = Nil, !.right_[n] = Nil,
              !.parent_[n] = Nil, !.value_[n] = value, !.aux_[n] = aux]

\* shared_ptr reference counting at the end of a call: a node with no owner
\* left (a member of the set object, a left_/right_ link of a live node, or
\* a cursor the caller still holds) is destroyed, which releases its own
\* links; nodes only owned round a cycle stay allocated.
RECURSIVE Survivors(_, _, _)
Survivors(t, live, held) ==
    LET owned == held \cup {t.left_[m] : m \in live} \cup {t.right_[m] : m \in live}
        keep == live \cap owned
    IN IF keep = live THEN live ELSE Survivors(t, keep, held)

\* The heap after the destructors ran: freed cells are blank and every
\* weak_ptr to a destroyed node has expired (lock() gives nullptr).
Release(t, held) ==
    LET live == Survivors(t, t.alive, held \cup {t.root_, t.begin_, t.end_})
        W(p) == IF p \in live THEN p ELSE Nil
    IN [t EXCEPT !.alive = live,
                 !.left_ = [n \in Ptr |-> IF n \in live THEN t.left_[n] ELSE Nil],
                 !.right_ = [n \in Ptr |-> IF n \in live THEN t.right_[n] ELSE Nil],
                 !.parent_ = [n \in Ptr |-> IF n \in live THEN W(t.parent_[n]) ELSE Nil],
                 !.value_ = [n \in Ptr |-> IF n \in live THEN t.value_[n] ELSE None],
                 !.aux_ = [n \in Ptr |-> IF n \in live THEN t.aux_[n] ELSE 0]]

\* The nodes reached from the nodes of S by owning links.
RECURSIVE Reach(_, _)
Reach(t, S) ==
    LET N == (S \cup {t.left_[n] : n \in S} \cup {t.right_[n] : n \in S}) \ {Nil}
    IN IF N = S THEN S ELSE Reach(t, N)

\* The body of a constructor and of Clear(): root_, begin_ and end_ are one
\* new node without a value, size_ is 0.
Sentinel(t, aux) ==
    LET free == FreeCells(t)
        e == IF MaxKey + 1 \in free THEN MaxKey + 1
             ELSE CHOOSE n \in free : \A m \in free : m <= n
    IN [NewNode(t, e, None, aux) EXCEPT !.root_ = e, !.begin_ = e, !.end_ = e,
                                        !.size_ = 0]

EmptyHeap ==
    [alive |-> {}, left_ |-> [n \in Ptr |-> Nil], right_ |-> [n \in Ptr |-> Nil],
     parent_ |-> [n \in Ptr |-> Nil], value_ |-> [n \in Ptr |-> None],
     aux_ |-> [n \in Ptr |-> 0], root_ |-> Nil, begin_ |-> Nil, end_ |-> Nil,
     size_ |-> 0, st |-> "ok"]

\* A cursor operation gives the cursor's new position and how the call ended.
Cur(it, st) == [it |-> it, st |-> st]

\* ------------------------------------------------------------------------
\* Pointer-chasing loops shared by the binary-tree variants
\* ------------------------------------------------------------------------
\* The result of a loop that never ends.
Lost == -1

\* while (node->left_) node = node->left_;
RECURSIVE Leftmost(_, _, _)
Leftmost(t, n, k) ==
    IF k = 0 THEN Lost
    ELSE IF t.left_[n] = Nil THEN n ELSE Leftmost(t, t.left_[n], k - 1)

\* while (node->right_) node = node->right_;
RECURSIVE Rightmost(_, _, _)
Rightmost(t, n, k) ==
    IF k = 0 THEN Lost
    ELSE IF t.right_[n] = Nil THEN n ELSE Rightmost(t, t.right_[n], k - 1)

\* ------------------------------------------------------------------------
\* AVLTree  (src/trees/avl_tree.h)
\* ------------------------------------------------------------------------
\* AVLTree(): one sentinel node, which is root_, begin_ and end_.
AVLTree ==
    LET e == MaxKey + 1
        h == NewNode(EmptyHeap, e, None, 1)
    IN [h EXCEPT !.root_ = e, !.begin_ = e, !.end_ = e]

\* AVLTreeItImpl::Increment, the climb: while (p && p->right_ == it_).
RECURSIVE AVLClimb(_, _, _)
AVLClimb(t, it, k) ==
    LET p == t.parent_[it]
    IN IF k = 0 THEN Lost
       ELSE IF p # Nil /\ t.right_[p] = it THEN AVLClimb(t, p, k - 1) ELSE it

AVLIncrement(t, it) ==
    IF t.value_[it] = None THEN Cur(it, "throw")
    ELSE IF t.right_[it] # Nil
    THEN LET n == Leftmost(t, t.right_[it], Fuel)
         IN IF n = Lost THEN Cur(it, "hang") ELSE Cur(n, "ok")
    ELSE LET top == AVLClimb(t, it, Fuel)
         IN IF top = Lost THEN Cur(it, "hang")
            ELSE IF t.parent_[top] # Nil THEN Cur(t.parent_[top], "ok")
            ELSE Cur(top, "ok")

AVLDecrement(t, it) ==
    IF t.left_[it] # Nil
    THEN LET n == Rightmost(t, t.left_[it], Fuel)
         IN IF n = Lost THEN Cur(it, "hang") ELSE Cur(n, "ok")
    ELSE LET p == t.parent_[it]
         IN IF p # Nil THEN Cur(p, "ok") ELSE Cur(it, "throw")

\* Dereferencing / Arrow: the value, or the exception on the sentinel.
AVLDereferencing(t, it) ==
    IF t.value_[it] = None THEN [v |-> None, st |-> "throw"]
    ELSE [v |-> t.value_[it], st |-> "ok"]

\* FindRecursive(root_, value): the node found, or end_.
RECURSIVE AVLFindRecursive(_, _, _, _)
AVLFindRecursive(t, from, value, k) ==
    IF k = 0 THEN Cur(t.end_, "hang")
    ELSE IF from = Nil THEN Cur(t.end_, "ok")
    ELSE IF StdValLessOpt(value, t.value_[from])
    THEN AVLFindRecursive(t, t.left_[from], value, k - 1)
    ELSE IF StdOptLessVal(t.value_[from], value)
    THEN AVLFindRecursive(t, t.right_[from], value, k - 1)
    ELSE Cur(from, "ok")

AVLFind(t, value) == AVLFindRecursive(t, t.root_, value, Fuel)

RECURSIVE AVLLowerBoundRecursive(_, _, _, _)
AVLLowerBoundRecursive(t, from, value, k) ==
    IF k = 0 THEN Cur(from, "hang")
    ELSE IF from = Nil THEN Cur(from, "ub")
    ELSE IF StdValLessOpt(value, t.value_[from])
    THEN IF t.left_[from] # Nil
         THEN AVLLowerBoundRecursive(t, t.left_[from], value, k - 1)
         ELSE Cur(from, "ok")
    ELSE IF StdOptLessVal(t.value_[from], value)
    THEN IF t.right_[from] # Nil
         THEN AVLLowerBoundRecursive(t, t.right_[from], value, k - 1)
         ELSE AVLIncrement(t, from)
    ELSE Cur(from, "ok")

AVLLowerBound(t, value) == AVLLowerBoundRecursive(t, t.root_, value, Fuel)

\* Remove pointers to end_ when tree is being modified
AVLRemoveLast(t) ==
    LET parent == t.parent_[t.end_]
        a(h) == IF parent # Nil THEN SetRight(h, parent, Nil) ELSE h
        b(h) == IF h.root_ = h.end_ THEN SetRoot(h, Nil) ELSE h
        c(h) == SetParent(h, h.end_, Nil)
    IN c(b(a(t)))

\* Set begin_ and end_ after modification
AVLBLCheck(t) ==
    IF Bad(t) THEN t
    ELSE IF t.root_ = Nil THEN SetBegin(t, t.end_)
    ELSE LET lm == Leftmost(t, t.root_, Fuel)
             rm == Rightmost(t, t.root_, Fuel)
         IN IF lm = Lost \/ rm = Lost THEN Hang(t)
            ELSE SetParent(SetRight(SetBegin(t, lm), rm, t.end_), t.end_, rm)

AVLHeightOf(t, n) == IF n = Nil THEN 0 ELSE t.aux_[n]

AVLFixHeight(t, node) ==
    IF Bad(t) \/ node = Nil THEN t
    ELSE LET hl == AVLHeightOf(t, t.left_[node])
             hr == AVLHeightOf(t, t.right_[node])
         IN SetAux(t, node, ((IF hl > hr THEN hl ELSE hr) + 1) % 256)

AVLBFactor(t, node) ==
    AVLHeightOf(t, t.right_[node]) - AVLHeightOf(t, t.left_[node])

AVLLeftRotate(t, from) ==
    IF Bad(t) THEN t
    ELSE LET right_node == t.right_[from]
             a(h) == SetRight(h, from, h.left_[right_node])
             b(h) == IF h.left_[right_node] # Nil
                     THEN SetParent(h, h.left_[right_node], from) ELSE h
             c(h) == SetParent(SetLeft(h, right_node, from), right_node, h.parent_[from])
             d(h) == LET parent == h.parent_[from]
                     IN IF parent # Nil
                        THEN IF h.right_[parent] = from
                             THEN SetRight(h, parent, right_node)
                             ELSE SetLeft(h, parent, right_node)
                        ELSE SetRoot(h, right_node)
             e(h) == SetParent(h, from, right_node)
             f(h) == AVLFixHeight(AVLFixHeight(h, from), right_node)
    IN IF right_node = Nil THEN Crash(t) ELSE f(e(d(c(b(a(t))))))

AVLRightRotate(t, from) ==
    IF Bad(t) THEN t
    ELSE LET left_node == t.left_[from]
             a(h) == SetLeft(h, from, h.right_[left_node])
             b(h) == IF h.right_[left_node] # Nil
                     THEN SetParent(h, h.right_[left_node], from) ELSE h
             c(h) == SetParent(SetRight(h, left_node, from), left_node, h.parent_[from])
             d(h) == LET parent == h.parent_[from]
                     IN IF parent # Nil
                        THEN IF h.right_[parent] = from
                             THEN SetRight(h, parent, left_node)
                             ELSE SetLeft(h, parent, left_node)
                        ELSE SetRoot(h, left_node)
             e(h) == SetParent(h, from, left_node)
             f(h) == AVLFixHeight(AVLFixHeight(h, from), left_node)
    IN IF left_node = Nil THEN Crash(t) ELSE f(e(d(c(b(a(t))))))

AVLFixBalance(t, node) ==
    LET inner_right(h) == IF h.right_[node] # Nil /\ AVLBFactor(h, h.right_[node]) < 0
                          THEN AVLRightRotate(h, h.right_[node]) ELSE h
        inner_left(h) == IF h.left_[node] # Nil /\ AVLBFactor(h, h.left_[node]) > 0
                         THEN AVLLeftRotate(h, h.left_[node]) ELSE h
        rotate(h) == IF Bad(h) THEN h
                     ELSE IF AVLBFactor(h, node) = 2 THEN AVLLeftRotate(inner_right(h), node)
                     ELSE IF AVLBFactor(h, node) = -2 THEN AVLRightRotate(inner_left(h), node)
                     ELSE h
    IN rotate(AVLFixHeight(t, node))

\* while (cur_node) { AVLFixBalance(cur_node); cur_node = cur_node->parent_.lock(); }
RECURSIVE AVLFixUp(_, _, _)
AVLFixUp(t, node, k) ==
    IF Bad(t) \/ node = Nil THEN t
    ELSE IF k = 0 THEN Hang(t)
    ELSE LET up(h) == AVLFixUp(h, h.parent_[node], k - 1)
         IN up(AVLFixBalance(t, node))

\* The descent of InsertImplementation: the node under which new_node goes,
\* or Nil when the value is already stored.
RECURSIVE AVLDescend(_, _, _, _)
AVLDescend(t, cur_node, value, k) ==
    IF k = 0 THEN Lost
    ELSE IF OptLess(value, t.value_[cur_node])
    THEN IF t.left_[cur_node] = Nil THEN cur_node
         ELSE AVLDescend(t, t.left_[cur_node], value, k - 1)
    ELSE IF OptLess(t.value_[cur_node], value)
    THEN IF t.right_[cur_node] = Nil THEN cur_node
         ELSE AVLDescend(t, t.right_[cur_node], value, k - 1)
    ELSE Nil

\* InsertImplementation: [t, ret]
AVLInsertImplementation(t, new_node) ==
    LET link(h, cur_node) ==
            IF cur_node = Lost THEN [t |-> Hang(h), ret |-> FALSE]
            ELSE IF cur_node = Nil THEN [t |-> h, ret |-> FALSE]
            ELSE [t |-> AVLBLCheck(AVLFixUp(
                            SetParent(IF OptLess(h.value_[new_node], h.value_[cur_node])
                                      THEN SetLeft(h, cur_node, new_node)
                                      ELSE SetRight(h, cur_node, new_node),
                                      new_node, cur_node),
                            cur_node, Fuel)),
                  ret |-> TRUE]
        place(h) ==
            IF h.root_ = Nil
            THEN [t |-> AVLBLCheck(SetRoot(h, new_node)), ret |-> TRUE]
            ELSE link(h, AVLDescend(h, h.root_, h.value_[new_node], Fuel))
    IN place(AVLRemoveLast(t))

AVLInsert(t, value) ==
    LET new_node == PickCell(t, value)
        count(r) == IF r.ret /\ ~Bad(r.t) THEN SetSize(r.t, r.t.size_ + 1) ELSE r.t
    IN count(AVLInsertImplementation(NewNode(t, new_node, value, 1), new_node))

AVLReplaceNodes(t, node1, node2) ==
    LET a(h) == LET node1_parent == h.parent_[node1]
                IN IF node1_parent # Nil
                   THEN IF h.left_[node1_parent] = node1
                        THEN SetLeft(h, node1_parent, node2)
                        ELSE SetRight(h, node1_parent, node2)
                   ELSE h
        b(h) == LET node2_parent == h.parent_[node2]
                    c(x) == IF node2_parent = node1
                            THEN SetParent(SetParent(x, node2, x.parent_[node1]),
                                           node1, node2)
                            ELSE SetParent(SetParent(x, node2, x.parent_[node1]),
                                           node1, x.parent_[node2])
                IN c(IF node2_parent # Nil
                     THEN IF h.left_[node2_parent] = node2
                          THEN SetLeft(h, node2_parent, node1)
                          ELSE SetRight(h, node2_parent, node1)
                     ELSE h)
        d(h) == SetLeft(h, node2, h.left_[node1])
        e(h) == IF h.left_[node1] # Nil THEN SetParent(h, h.left_[node1], node2) ELSE h
        f(h) == SetLeft(h, node1, Nil)
        g(h) == SetAux(SetAux(h, node2, h.aux_[node1]), node1, h.aux_[node2])
        i(h) == LET children == h.right_[node2]
                    j(x) == SetRight(x, node2, x.right_[node1])
                    k(x) == IF x.right_[node1] # Nil
                            THEN SetParent(x, x.right_[node1], node2) ELSE x
                    l(x) == SetRight(x, node1, children)
                    m(x) == IF children # Nil THEN SetParent(x, children, node1) ELSE x
                IN m(l(k(j(h))))
    IN i(g(f(e(d(b(a(t)))))))

\* EraseImplementation: the heap and the node the rebalancing walk starts at.
AVLEraseImplementation(t, delete_node) ==
    LET rehang(h, parent) ==
            IF ~Bad(h) /\ h.right_[delete_node] # Nil
            THEN LET p2 == h.parent_[delete_node]
                 IN [t |-> SetParent(SetLeft(h, p2, h.right_[delete_node]),
                                     h.right_[delete_node], p2),
                     parent |-> p2]
            ELSE [t |-> h, parent |-> parent]
        splice(h) ==
            LET parent == h.parent_[delete_node]
                l == h.left_[delete_node]
                r == h.right_[delete_node]
            IN IF r = Nil /\ l = Nil
               THEN [t |-> IF parent # Nil
                           THEN IF h.left_[parent] = delete_node
                                THEN SetLeft(h, parent, Nil) ELSE SetRight(h, parent, Nil)
                           ELSE SetRoot(h, Nil),
                     parent |-> parent]
               ELSE IF r = Nil \/ l = Nil
               THEN LET child_node == IF r # Nil THEN r ELSE l
                    IN [t |-> IF parent = Nil THEN SetRoot(h, child_node)
                              ELSE SetParent(IF h.left_[parent] = delete_node
                                             THEN SetLeft(h, parent, child_node)
                                             ELSE SetRight(h, parent, child_node),
                                             child_node, parent),
                        parent |-> parent]
               ELSE LET swap_node == Leftmost(h, r, Fuel)
                    IN IF swap_node = Lost THEN [t |-> Hang(h), parent |-> Nil]
                       ELSE rehang(AVLReplaceNodes(h, delete_node, swap_node), parent)
        rebalance(s) == AVLBLCheck(AVLFixUp(s.t, s.parent, Fuel))
    IN rebalance(splice(AVLRemoveLast(t)))

AVLErase(t, value) ==
    LET count(h) == SetSize(h, h.size_ - 1)
        remove(find) ==
            IF find.st # "ok" THEN [t EXCEPT !.st = find.st]
            ELSE IF find.it = t.end_ THEN t
            ELSE count(AVLEraseImplementation(t, find.it))
    IN remove(AVLFind(t, value))

\* AVLTree::Clear without its second assignment, begin_ = end_.
AVLClearKeepsBegin(t) == SetSize(SetRoot(t, t.end_), 0)

AVLClear(t) == SetSize(SetBegin(SetRoot(t, t.end_), t.end_), 0)

\* ------------------------------------------------------------------------
\* RBTree  (src/trees/rb_tree.h);  aux_ is is_red_: 1 red, 0 black
\* ------------------------------------------------------------------------
Red == 1
Black == 0
IsRed(t, n) == t.aux_[n] = Red

\* RBTree(): one sentinel node (red, as every new node).
RBTree ==
    LET e == MaxKey + 1
        h == NewNode(EmptyHeap, e, None, Red)
    IN [h EXCEPT !.root_ = e, !.begin_ = e, !.end_ = e]

\* RBTreeItImpl::Increment without its first check (the sentinel has no
\* value): what the climb does when it starts at end().
RBIncrementUnchecked(t, it) ==
    IF t.right_[it] # Nil
    THEN LET n == Leftmost(t, t.right_[it], Fuel)
         IN IF n = Lost THEN Cur(it, "hang") ELSE Cur(n, "ok")
    ELSE LET top == AVLClimb(t, it, Fuel)
         IN IF top = Lost THEN Cur(it, "hang")
            ELSE IF t.parent_[top] # Nil THEN Cur(t.parent_[top], "ok")
            ELSE Cur(top, "ok")

\* RBTreeItImpl::Increment is AVLTreeItImpl::Increment line for line.
RBIncrement(t, it) ==
    IF t.value_[it] = None THEN Cur(it, "throw")
    ELSE IF t.right_[it] # Nil
    THEN LET n == Leftmost(t, t.right_[it], Fuel)
         IN IF n = Lost THEN Cur(it, "hang") ELSE Cur(n, "ok")
    ELSE LET top == AVLClimb(t, it, Fuel)
         IN IF top = Lost THEN Cur(it, "hang")
            ELSE IF t.parent_[top] # Nil THEN Cur(t.parent_[top], "ok")
            ELSE Cur(top, "ok")

\* while (parent && parent->left_ == it_) { it_ = parent; ... }
RECURSIVE ClimbFromLeft(_, _, _)
ClimbFromLeft(t, it, k) ==
    LET p == t.parent_[it]
    IN IF k = 0 THEN Lost
       ELSE IF p # Nil /\ t.left_[p] = it THEN ClimbFromLeft(t, p, k - 1) ELSE it

RBDecrement(t, it) ==
    IF t.left_[it] # Nil
    THEN LET n == Rightmost(t, t.left_[it], Fuel)
         IN IF n = Lost THEN Cur(it, "hang") ELSE Cur(n, "ok")
    ELSE LET top == ClimbFromLeft(t, it, Fuel)
         IN IF top = Lost THEN Cur(it, "hang")
            ELSE IF t.parent_[top] # Nil THEN Cur(t.parent_[top], "ok")
            ELSE Cur(top, "throw")

RBDereferencing(t, it) ==
    IF t.value_[it] = None THEN [v |-> None, st |-> "throw"]
    ELSE [v |-> t.value_[it], st |-> "ok"]

RECURSIVE RBFindRecursive(_, _, _, _)
RBFindRecursive(t, from, value, k) ==
    IF k = 0 THEN Cur(t.end_, "hang")
    ELSE IF from = Nil THEN Cur(t.end_, "ok")
    ELSE IF RBValLessOpt(value, t.value_[from])
    THEN RBFindRecursive(t, t.left_[from], value, k - 1)
    ELSE IF StdOptLessVal(t.value_[from], value)
    THEN RBFindRecursive(t, t.right_[from], value, k - 1)
    ELSE Cur(from, "ok")

RBFind(t, value) == RBFindRecursive(t, t.root_, value, Fuel)

RECURSIVE RBLowerBoundRecursive(_, _, _, _)
RBLowerBoundRecursive(t, from, value, k) ==
    IF k = 0 THEN Cur(from, "hang")
    ELSE IF from = Nil THEN Cur(from, "ub")
    ELSE IF RBValLessOpt(value, t.value_[from])
    THEN IF t.left_[from] # Nil
         THEN RBLowerBoundRecursive(t, t.left_[from], value, k - 1)
         ELSE Cur(from, "ok")
    ELSE IF StdOptLessVal(t.value_[from], value)
    THEN IF t.right_[from] # Nil
         THEN RBLowerBoundRecursive(t, t.right_[from], value, k - 1)
         ELSE RBIncrement(t, from)
    ELSE Cur(from, "ok")

RBLowerBound(t, value) == RBLowerBoundRecursive(t, t.root_, value, Fuel)

\* Remove pointers to end_ when tree is being modified (end_->parent_ stays)
RBRemoveLast(t) ==
    LET parent == t.parent_[t.end_]
        a(h) == IF parent # Nil THEN SetRight(h, parent, Nil) ELSE h
        b(h) == IF h.root_ = h.end_ THEN SetRoot(h, Nil) ELSE h
    IN b(a(t))

RBBLCheck(t) == AVLBLCheck(t)

RECURSIVE RBBalancing(_, _, _)
RBBalancing(t, from, k) ==
    IF Bad(t) THEN t
    ELSE IF k = 0 THEN Hang(t)
    ELSE IF t.parent_[from] = Nil THEN t
    ELSE LET parent == t.parent_[from] IN
    IF ~IsRed(t, parent) THEN t
    ELSE IF t.parent_[parent] = Nil THEN SetAux(t, parent, Black)
    ELSE LET grandparent == t.parent_[parent] IN
    IF t.right_[grandparent] = parent
    THEN LET uncle == t.left_[grandparent] IN
         IF uncle # Nil /\ IsRed(t, uncle)
         THEN RBBalancing(SetAux(SetAux(SetAux(t, parent, Black), uncle, Black),
                                 grandparent, Red), grandparent, k - 1)
         ELSE IF t.left_[parent] = from
         THEN LET a(h) == SetRight(h, grandparent, from)
                  b(h) == SetParent(h, parent, from)
                  c(h) == SetLeft(h, parent, h.right_[from])
                  d(h) == IF h.right_[from] # Nil
                          THEN SetParent(h, h.right_[from], parent) ELSE h
                  e(h) == SetParent(SetRight(h, from, parent), from, grandparent)
              IN RBBalancing(e(d(c(b(a(t))))), parent, k - 1)
         ELSE LET a(h) == IF h.parent_[grandparent] # Nil
                          THEN LET ggp == h.parent_[grandparent]
                               IN SetParent(IF h.right_[ggp] = grandparent
                                            THEN SetRight(h, ggp, parent)
                                            ELSE SetLeft(h, ggp, parent), parent, ggp)
                          ELSE SetParent(SetRoot(h, parent), parent, Nil)
                  b(h) == SetRight(h, grandparent, h.left_[parent])
                  c(h) == IF h.left_[parent] # Nil
                          THEN SetParent(h, h.left_[parent], grandparent) ELSE h
                  d(h) == SetParent(SetLeft(h, parent, grandparent), grandparent, parent)
                  e(h) == SetAux(SetAux(h, parent, Black), grandparent, Red)
              IN e(d(c(b(a(t)))))
    ELSE LET uncle == t.right_[grandparent] IN
         IF uncle # Nil /\ IsRed(t, uncle)
         THEN RBBalancing(SetAux(SetAux(SetAux(t, parent, Black), uncle, Black),
                                 grandparent, Red), grandparent, k - 1)
         ELSE IF t.right_[parent] = from
         THEN LET a(h) == IF h.right_[grandparent] = parent
                          THEN SetRight(h, grandparent, from)
                          ELSE SetLeft(h, grandparent, from)
                  b(h) == SetParent(h, parent, from)
                  c(h) == SetRight(h, parent, h.left_[from])
                  d(h) == IF h.left_[from] # Nil
                          THEN SetParent(h, h.left_[from], parent) ELSE h
                  e(h) == SetParent(SetLeft(h, from, parent), from, grandparent)
              IN RBBalancing(e(d(c(b(a(t))))), parent, k - 1)
         ELSE LET a(h) == IF h.parent_[grandparent] # Nil
                          THEN LET ggp == h.parent_[grandparent]
                               IN SetParent(IF h.left_[ggp] = grandparent
                                            THEN SetLeft(h, ggp, parent)
                                            ELSE SetRight(h, ggp, parent), parent, ggp)
                          ELSE SetParent(SetRoot(h, parent), parent, Nil)
                  b(h) == SetLeft(h, grandparent, h.right_[parent])
                  c(h) == IF h.right_[parent] # Nil
                          THEN SetParent(h, h.right_[parent], grandparent) ELSE h
                  d(h) == SetParent(SetRight(h, parent, grandparent), grandparent, parent)
                  e(h) == SetAux(SetAux(h, parent, Black), grandparent, Red)
              IN e(d(c(b(a(t)))))

RBInsertImplementationUnbalanced(t, new_node) ==
    LET link(h, cur_node) ==
            IF cur_node = Lost THEN [t |-> Hang(h), ret |-> FALSE]
            ELSE IF cur_node = Nil THEN [t |-> h, ret |-> FALSE]
            ELSE [t |-> RBBLCheck(
                            SetParent(IF OptLess(h.value_[new_node], h.value_[cur_node])
                                      THEN SetLeft(h, cur_node, new_node)
                                      ELSE SetRight(h, cur_node, new_node),
                                      new_node, cur_node)),
                  ret |-> TRUE]
        place(h) ==
            IF h.root_ = Nil
            THEN [t |-> RBBLCheck(SetRoot(h, new_node)), ret |-> TRUE]
            ELSE link(h, AVLDescend(h, h.root_, h.value_[new_node], Fuel))
    IN place(RBRemoveLast(t))

RBInsertImplementation(t, new_node) ==
    LET link(h, cur_node) ==
            IF cur_node = Lost THEN [t |-> Hang(h), ret |-> FALSE]
            ELSE IF cur_node = Nil THEN [t |-> h, ret |-> FALSE]
            ELSE [t |-> RBBLCheck(RBBalancing(
                            SetParent(IF OptLess(h.value_[new_node], h.value_[cur_node])
                                      THEN SetLeft(h, cur_node, new_node)
                                      ELSE SetRight(h, cur_node, new_node),
                                      new_node, cur_node),
                            new_node, Fuel)),
                  ret |-> TRUE]
        place(h) ==
            IF h.root_ = Nil
            THEN [t |-> RBBLCheck(SetRoot(h, new_node)), ret |-> TRUE]
            ELSE link(h, AVLDescend(h, h.root_, h.value_[new_node], Fuel))
    IN place(RBRemoveLast(t))

RBInsert(t, value) ==
    LET new_node == PickCell(t, value)
        count(r) == IF r.ret /\ ~Bad(r.t) THEN SetSize(r.t, r.t.size_ + 1) ELSE r.t
    IN count(RBInsertImplementation(NewNode(t, new_node, value, Red), new_node))

RBLeftRotate(t, from) ==
    IF Bad(t) THEN t
    ELSE IF from = Nil THEN Crash(t)
    ELSE LET parent == t.parent_[from]
             right_node == t.right_[from]
             next_node == IF right_node # Nil THEN t.left_[right_node] ELSE Nil
             a(h) == IF parent # Nil
                     THEN IF h.left_[parent] = from
                          THEN SetLeft(h, parent, right_node)
                          ELSE SetRight(h, parent, right_node)
                     ELSE SetRoot(h, right_node)
             b(h) == IF right_node # Nil
                     THEN SetLeft(SetParent(h, right_node, parent), right_node, from)
                     ELSE h
             c(h) == IF next_node # Nil THEN SetParent(h, next_node, from) ELSE h
             d(h) == SetRight(SetParent(h, from, right_node), from, next_node)
         IN d(c(b(a(t))))

RBRightRotate(t, from) ==
    IF Bad(t) THEN t
    ELSE IF from = Nil THEN Crash(t)
    ELSE LET parent == t.parent_[from]
             left_node == t.left_[from]
             prev_node == IF left_node # Nil THEN t.right_[left_node] ELSE Nil
             a(h) == IF parent # Nil
                     THEN IF h.right_[parent] = from
                          THEN SetRight(h, parent, left_node)
                          ELSE SetLeft(h, parent, left_node)
                     ELSE SetRoot(h, left_node)
             b(h) == IF left_node # Nil
                     THEN SetRight(SetParent(h, left_node, parent), left_node, from)
                     ELSE h
             c(h) == IF prev_node # Nil THEN SetParent(h, prev_node, from) ELSE h
             d(h) == SetLeft(SetParent(h, from, left_node), from, prev_node)
         IN d(c(b(a(t))))

\* (parent->left_ == from) ? parent->right_ : parent->left_
RBSibling(t, parent, from) ==
    IF t.left_[parent] = from THEN t.right_[parent] ELSE t.left_[parent]
BlackOrNull(t, n) == n = Nil \/ ~IsRed(t, n)

\* One pass of the while loop of FixBalance, from on parent's left:
\* [t, from, ret] with ret TRUE when the function returned from inside.
RBFixLeftCase(t, from, parent, sibling0) ==
    LET sibling_right0 == t.right_[sibling0]
        sibling_left0 == t.left_[sibling0]
        \* the sibling is black with a red right child
        outer(h, sibling2, sibling_right2) ==
            LET c(x) == IF sibling2 = Nil THEN Crash(x)
                        ELSE SetAux(SetAux(x, sibling2, x.aux_[parent]), parent, Black)
                d(x) == IF sibling_right2 # Nil
                        THEN SetAux(x, x.right_[sibling2], Black) ELSE x
                e(x) == RBLeftRotate(x, parent)
                done(x) == [t |-> x, from |-> x.root_, ret |-> FALSE]
            IN done(e(d(c(h))))
        \* after the inner rotation the sibling and its right child are re-read
        reread(h) ==
            LET sibling2 == RBSibling(h, parent, from)
            IN outer(h, sibling2, h.right_[sibling2])
        \* the sibling is black
        black(h, sibling1) ==
            IF BlackOrNull(h, sibling_left0) /\ BlackOrNull(h, sibling_right0)
            THEN [t |-> SetAux(h, sibling1, Red), from |-> parent, ret |-> FALSE]
            ELSE IF BlackOrNull(h, sibling_right0)
            THEN reread(RBRightRotate(SetAux(SetAux(h, sibling1, Red), sibling_left0, Black),
                                      sibling1))
            ELSE outer(h, sibling1, sibling_right0)
        \* the sibling is red
        red(h) == black(h, RBSibling(h, parent, from))
    IN IF IsRed(t, sibling0)
       THEN red(RBLeftRotate(SetAux(SetAux(t, sibling0, Black), parent, Red), parent))
       ELSE black(t, sibling0)

\* The same pass with from on parent's right.
RBFixRightCase(t, from, parent, sibling0) ==
    LET sibling_right0 == t.right_[sibling0]
        sibling_left0 == t.left_[sibling0]
        outer(h, sibling2, sibling_left2) ==
            LET c(x) == IF sibling2 = Nil THEN Crash(x)
                        ELSE SetAux(SetAux(x, sibling2, x.aux_[parent]), parent, Black)
                d(x) == IF sibling_left2 # Nil THEN SetAux(x, sibling_left2, Black) ELSE x
                e(x) == RBRightRotate(x, parent)
                done(x) == [t |-> x, from |-> x.root_, ret |-> FALSE]
            IN done(e(d(c(h))))
        reread(h) ==
            LET sibling2 == RBSibling(h, parent, from)
            IN outer(h, sibling2, h.left_[sibling2])
        black(h, sibling1) ==
            IF sibling1 = Nil THEN [t |-> Crash(h), from |-> from, ret |-> TRUE]
            ELSE IF BlackOrNull(h, h.left_[sibling1]) /\ BlackOrNull(h, h.right_[sibling1])
            THEN [t |-> SetAux(h, sibling1, Red), from |-> parent, ret |-> FALSE]
            ELSE IF BlackOrNull(h, sibling_left0)
            THEN reread(RBLeftRotate(SetAux(SetAux(h, sibling1, Red), sibling_right0, Black),
                                     sibling1))
            ELSE outer(h, sibling1, sibling_left0)
        red(h) == black(h, RBSibling(h, parent, from))
    IN IF IsRed(t, sibling0)
       THEN red(RBRightRotate(SetAux(SetAux(t, sibling0, Black), parent, Red), parent))
       ELSE black(t, sibling0)

RECURSIVE RBFixBalanceLoop(_, _, _)
RBFixBalanceLoop(t, from, k) ==
    IF Bad(t) THEN [t |-> t, from |-> from, ret |-> TRUE]
    ELSE IF from = Nil THEN [t |-> Crash(t), from |-> from, ret |-> TRUE]
    ELSE IF k = 0 THEN [t |-> Hang(t), from |-> from, ret |-> TRUE]
    ELSE IF ~(~IsRed(t, from) /\ t.root_ # from) THEN [t |-> t, from |-> from, ret |-> FALSE]
    ELSE LET parent == t.parent_[from] IN
    IF parent = Nil THEN [t |-> t, from |-> from, ret |-> TRUE]
    ELSE LET sibling == RBSibling(t, parent, from) IN
    IF sibling = Nil THEN [t |-> t, from |-> from, ret |-> TRUE]
    ELSE LET again(r) == IF r.ret THEN r ELSE RBFixBalanceLoop(r.t, r.from, k - 1)
         IN again(IF t.left_[parent] = from
                  THEN RBFixLeftCase(t, from, parent, sibling)
                  ELSE RBFixRightCase(t, from, parent, sibling))

RBFixBalance(t, from) ==
    LET paint(r) ==
            IF r.ret \/ Bad(r.t) THEN r.t
            ELSE IF r.t.root_ = Nil THEN Crash(r.t)
            ELSE SetAux(SetAux(r.t, r.from, Black), r.t.root_, Black)
    IN paint(RBFixBalanceLoop(t, from, 2 * Fuel))

RBSwapWithChild(t, from_node, swap_node) ==
    LET parent == t.parent_[from_node]
        a(h) == IF parent # Nil
                THEN IF h.left_[parent] = from_node
                     THEN SetLeft(h, parent, swap_node) ELSE SetRight(h, parent, swap_node)
                ELSE SetRoot(h, swap_node)
        b(h) == SetParent(h, swap_node, parent)
        c(h) == SetRight(h, from_node, h.right_[swap_node])
        d(h) == IF h.right_[swap_node] # Nil
                THEN SetParent(h, h.right_[swap_node], from_node) ELSE h
        e(h) == SetParent(SetRight(h, swap_node, from_node), from_node, swap_node)
        f(h) == SetLeft(h, swap_node, h.left_[from_node])
        g(h) == IF h.left_[from_node] # Nil
                THEN SetParent(h, h.left_[from_node], swap_node) ELSE h
        i(h) == SetLeft(h, from_node, Nil)
        j(h) == SetAux(SetAux(h, swap_node, h.aux_[from_node]), from_node, h.aux_[swap_node])
    IN j(i(g(f(e(d(c(b(a(t)))))))))

\* When swap node is not child
RBSwapWithOffspring(t, from_node, swap_node) ==
    LET from_parent == t.parent_[from_node]
        a(h) == IF from_parent # Nil
                THEN IF h.left_[from_parent] = from_node
                     THEN SetLeft(h, from_parent, swap_node)
                     ELSE SetRight(h, from_parent, swap_node)
                ELSE SetRoot(h, swap_node)
        b(h) == LET swap_parent == h.parent_[swap_node]
                    c(x) == SetLeft(x, swap_parent, x.right_[swap_node])
                    d(x) == IF x.right_[swap_node] # Nil
                            THEN SetParent(x, x.right_[swap_node], swap_parent) ELSE x
                IN d(c(h))
        e(h) == SetParent(SetParent(h, from_node, h.parent_[swap_node]),
                          swap_node, h.parent_[from_node])
        f(h) == LET tmp_right == h.right_[swap_node]
                    g(x) == SetRight(x, swap_node, x.right_[from_node])
                    i(x) == SetParent(x, x.right_[from_node], swap_node)
                    j(x) == SetRight(x, from_node, tmp_right)
                IN j(i(g(h)))
        l(h) == IF h.right_[from_node] # Nil
                THEN SetParent(h, h.right_[from_node], from_node) ELSE h
        m(h) == SetLeft(h, swap_node, h.left_[from_node])
        n(h) == IF h.left_[from_node] # Nil
                THEN SetParent(h, h.left_[from_node], swap_node) ELSE h
        o(h) == SetLeft(h, from_node, Nil)
        p(h) == SetAux(SetAux(h, swap_node, h.aux_[from_node]), from_node, h.aux_[swap_node])
    IN p(o(n(m(l(f(e(b(a(t)))))))))

\* parent->right_ == delete_node ? parent->right_ = x : parent->left_ = x
RBReplaceChild(t, parent, delete_node, x) ==
    IF Bad(t) THEN t
    ELSE IF parent = Nil THEN Crash(t)
    ELSE IF t.right_[parent] = delete_node THEN SetRight(t, parent, x)
    ELSE SetLeft(t, parent, x)

RBEraseImplementation(t, delete_node) ==
    LET unhook(h, parent) ==
            IF parent # Nil
            THEN IF h.left_[parent] = delete_node
                 THEN SetLeft(h, parent, Nil) ELSE SetRight(h, parent, Nil)
            ELSE SetRoot(h, Nil)
        recolour(h, child_node) ==
            IF ~IsRed(h, delete_node) /\ IsRed(h, child_node)
            THEN SetAux(h, child_node, Black)
            ELSE IF ~IsRed(h, delete_node) /\ ~IsRed(h, child_node)
            THEN RBFixBalance(h, child_node)
            ELSE h
        fix_child(h) ==
            IF ~Bad(h) /\ ~IsRed(h, h.right_[delete_node])
            THEN RBFixBalance(h, h.right_[delete_node])
            ELSE h
        swapped(h, swapHasChild) ==
            LET p2 == h.parent_[delete_node]
                reparent(x) == SetParent(x, x.right_[delete_node], p2)
            IN IF Bad(h) THEN h
               ELSE IF swapHasChild
               THEN fix_child(reparent(RBReplaceChild(h, p2, delete_node,
                                                      h.right_[delete_node])))
               ELSE RBReplaceChild(IF ~IsRed(h, delete_node)
                                   THEN RBFixBalance(h, delete_node) ELSE h,
                                   p2, delete_node, Nil)
        splice(h) ==
            LET parent == h.parent_[delete_node]
                l == h.left_[delete_node]
                r == h.right_[delete_node]
            IN IF r = Nil /\ l = Nil
               THEN unhook(RBFixBalance(h, delete_node), parent)
               ELSE IF r = Nil \/ l = Nil
               THEN LET child_node == IF r # Nil THEN r ELSE l
                    IN IF parent = Nil
                       THEN SetParent(SetRoot(h, child_node), child_node, Nil)
                       ELSE recolour(SetParent(IF h.left_[parent] = delete_node
                                               THEN SetLeft(h, parent, child_node)
                                               ELSE SetRight(h, parent, child_node),
                                               child_node, parent),
                                     child_node)
               ELSE LET swap_node == Leftmost(h, r, Fuel)
                    IN IF swap_node = Lost THEN Hang(h)
                       ELSE swapped(IF h.right_[delete_node] = swap_node
                                    THEN RBSwapWithChild(h, delete_node, swap_node)
                                    ELSE RBSwapWithOffspring(h, delete_node, swap_node),
                                    h.right_[swap_node] # Nil)
        \* When delete the last real node (for iterators)
        last_node(h) ==
            IF ~Bad(h) /\ h.parent_[h.end_] = delete_node
            THEN SetRight(h, delete_node, h.end_)
            ELSE h
    IN RBBLCheck(last_node(splice(RBRemoveLast(t))))

RBErase(t, value) ==
    LET count(h) == SetSize(h, h.size_ - 1)
        remove(find) ==
            IF find.st # "ok" THEN [t EXCEPT !.st = find.st]
            ELSE IF find.it = t.end_ THEN t
            ELSE count(RBEraseImplementation(t, find.it))
    IN remove(RBFind(t, value))

RBClear(t) ==
    SetSize(SetBegin(SetRoot(SetParent(t, t.end_, Nil), t.end_), t.end_), 0)

\* ------------------------------------------------------------------------
\* SplayTree  (src/trees/splay_tree.h);  aux_ is unused
\* ------------------------------------------------------------------------
SplayTree ==
    LET e == MaxKey + 1
        h == NewNode(EmptyHeap, e, None, 0)
    IN [h EXCEPT !.root_ = e, !.begin_ = e, !.end_ = e]

SplaySetHanger(t, x, hanger, left_child) ==
    LET hang(h) == IF hanger # Nil
                   THEN IF left_child THEN SetLeft(h, hanger, x) ELSE SetRight(h, hanger, x)
                   ELSE h
    IN hang(SetParent(t, x, hanger))

SplayZigDropsSubtree(t, x, y) ==
    LET hanger == t.parent_[y]
        left_child == hanger # Nil /\ t.left_[hanger] = y
        a(h) == SetLeft(h, y, Nil)
        c(h) == SetParent(SetRight(h, x, y), y, x)
    IN SplaySetHanger(c(a(t)), x, hanger, left_child)

SplayZig(t, x, y) ==
    LET hanger == t.parent_[y]
        left_child == hanger # Nil /\ t.left_[hanger] = y
        a(h) == SetLeft(h, y, h.right_[x])
        b(h) == IF h.left_[y] # Nil THEN SetParent(h, h.left_[y], y) ELSE h
        c(h) == SetParent(SetRight(h, x, y), y, x)
    IN SplaySetHanger(c(b(a(t))), x, hanger, left_child)

SplayZag(t, x, y) ==
    LET hanger == t.parent_[y]
        left_child == hanger # Nil /\ t.left_[hanger] = y
        a(h) == SetRight(h, y, h.left_[x])
        b(h) == IF h.right_[y] # Nil THEN SetParent(h, h.right_[y], y) ELSE h
        c(h) == SetParent(SetLeft(h, x, y), y, x)
    IN SplaySetHanger(c(b(a(t))), x, hanger, left_child)

SplayZigZig(t, x, y, z) ==
    LET hanger == t.parent_[z]
        left_child == hanger # Nil /\ t.left_[hanger] = z
        a(h) == SetLeft(h, z, h.right_[y])
        b(h) == IF h.left_[z] # Nil THEN SetParent(h, h.left_[z], z) ELSE h
        c(h) == SetRight(SetParent(h, z, y), y, z)
        d(h) == SetLeft(h, y, h.right_[x])
        e(h) == IF h.left_[y] # Nil THEN SetParent(h, h.left_[y], y) ELSE h
        f(h) == SetRight(SetParent(h, y, x), x, y)
    IN SplaySetHanger(f(e(d(c(b(a(t)))))), x, hanger, left_child)

SplayZagZag(t, x, y, z) ==
    LET hanger == t.parent_[z]
        left_child == hanger # Nil /\ t.left_[hanger] = z
        a(h) == SetRight(h, z, h.left_[y])
        b(h) == IF h.right_[z] # Nil THEN SetParent(h, h.right_[z], z) ELSE h
        c(h) == SetLeft(SetParent(h, z, y), y, z)
        d(h) == SetRight(h, y, h.left_[x])
        e(h) == IF h.right_[y] # Nil THEN SetParent(h, h.right_[y], y) ELSE h
        f(h) == SetLeft(SetParent(h, y, x), x, y)
    IN SplaySetHanger(f(e(d(c(b(a(t)))))), x, hanger, left_child)

SplayZigZag(t, x, y, z) ==
    LET hanger == t.parent_[z]
        left_child == hanger # Nil /\ t.left_[hanger] = z
        a(h) == SetLeft(h, z, h.right_[x])
        b(h) == IF h.left_[z] # Nil THEN SetParent(h, h.left_[z], z) ELSE h
        c(h) == SetRight(SetParent(h, z, x), x, z)
        d(h) == SetRight(h, y, h.left_[x])
        e(h) == IF h.right_[y] # Nil THEN SetParent(h, h.right_[y], y) ELSE h
        f(h) == SetLeft(SetParent(h, y, x), x, y)
    IN SplaySetHanger(f(e(d(c(b(a(t)))))), x, hanger, left_child)

SplayZagZig(t, x, y, z) ==
    LET hanger == t.parent_[z]
        left_child == hanger # Nil /\ t.left_[hanger] = z
        a(h) == SetRight(h, z, h.left_[x])
        b(h) == IF h.right_[z] # Nil THEN SetParent(h, h.right_[z], z) ELSE h
        c(h) == SetLeft(SetParent(h, z, x), x, z)
        d(h) == SetLeft(h, y, h.right_[x])
        e(h) == IF h.left_[y] # Nil THEN SetParent(h, h.left_[y], y) ELSE h
        f(h) == SetRight(SetParent(h, y, x), x, y)
    IN SplaySetHanger(f(e(d(c(b(a(t)))))), x, hanger, left_child)

RECURSIVE SplayLoop(_, _, _)
SplayLoop(t, from, k) ==
    LET parent == t.parent_[from] IN
    IF Bad(t) THEN t
    ELSE IF k = 0 THEN Hang(t)
    ELSE IF parent = Nil THEN t
    ELSE LET grandparent == t.parent_[parent] IN
    IF grandparent = Nil
    THEN IF t.right_[parent] = from THEN SplayZag(t, from, parent)
         ELSE SplayZig(t, from, parent)
    ELSE IF t.right_[grandparent] = parent
    THEN IF t.right_[parent] = from
         THEN SplayLoop(SplayZagZag(t, from, parent, grandparent), from, k - 1)
         ELSE SplayLoop(SplayZagZig(t, from, parent, grandparent), from, k - 1)
    ELSE IF t.right_[parent] = from
         THEN SplayLoop(SplayZigZag(t, from, parent, grandparent), from, k - 1)
         ELSE SplayLoop(SplayZigZig(t, from, parent, grandparent), from, k - 1)

Splay(t, from) ==
    IF Bad(t) THEN t
    ELSE IF from = Nil THEN Crash(t)
    ELSE SetRoot(SplayLoop(t, from, Fuel), from)

SplayIncrement(t, it) ==
    IF t.value_[it] = None THEN Cur(it, "throw")
    ELSE IF t.right_[it] # Nil
    THEN LET n == Leftmost(t, t.right_[it], Fuel)
         IN IF n = Lost THEN Cur(it, "hang") ELSE Cur(n, "ok")
    ELSE LET top == AVLClimb(t, it, Fuel)
         IN IF top = Lost THEN Cur(it, "hang")
            ELSE IF t.parent_[top] = Nil THEN Cur(top, "ub")
            ELSE Cur(t.parent_[top], "ok")

SplayDecrement(t, it) == RBDecrement(t, it)

SplayDereferencing(t, it) == RBDereferencing(t, it)

\* The descent shared by Find, LowerBound, Insert and Erase: the node at
\* which the loop stops and the branch ("left", "right", "eq") it stops in.
RECURSIVE SplayDescend(_, _, _, _)
SplayDescend(t, cur, val, k) ==
    IF k = 0 THEN [n |-> cur, at |-> "hang"]
    ELSE IF cur = Nil THEN [n |-> cur, at |-> "null"]
    ELSE IF OptLess(val, t.value_[cur])
    THEN IF t.left_[cur] # Nil THEN SplayDescend(t, t.left_[cur], val, k - 1)
         ELSE [n |-> cur, at |-> "left"]
    ELSE IF OptLess(t.value_[cur], val)
    THEN IF t.right_[cur] # Nil THEN SplayDescend(t, t.right_[cur], val, k - 1)
         ELSE [n |-> cur, at |-> "right"]
    ELSE [n |-> cur, at |-> "eq"]

\* Find: [t, it, st], the tree after the splay and the returned cursor.
SplayFind(t, value) ==
    LET d == SplayDescend(t, t.root_, value, Fuel)
        found(h) == IF Bad(h) THEN [t |-> h] @@ Cur(h.end_, h.st)
                    ELSE IF d.at = "eq" THEN [t |-> h] @@ Cur(h.root_, "ok")
                    ELSE [t |-> h] @@ Cur(h.end_, "ok")
    IN IF d.at = "hang" THEN [t |-> t] @@ Cur(t.end_, "hang")
       ELSE IF d.at = "null" THEN [t |-> t] @@ Cur(t.end_, "ok")
       ELSE found(Splay(t, d.n))

SplayLowerBound(t, value) ==
    LET d == SplayDescend(t, t.root_, value, Fuel)
        at(h, it) == [t |-> h] @@ Cur(it, h.st)
        at_root(h) == [t |-> h] @@ Cur(h.root_, h.st)
        next(it) == IF it.st # "ok" THEN [t |-> t] @@ it
                    ELSE at(Splay(t, it.it), it.it)
    IN IF d.at = "hang" THEN [t |-> t] @@ Cur(t.end_, "hang")
       ELSE IF d.at = "null" THEN [t |-> t] @@ Cur(t.end_, "ub")
       ELSE IF d.at = "right" THEN next(SplayIncrement(t, d.n))
       ELSE at_root(Splay(t, d.n))

SplayInsert(t, value) ==
    LET new_node == PickCell(t, value)
        count(h) == IF Bad(h) THEN h ELSE SetSize(h, h.size_ + 1)
        left(h, n) == IF h.begin_ = n THEN SetBegin(h, new_node) ELSE h
        hang(h, n, at) == IF at = "left" THEN left(SetLeft(h, n, new_node), n)
                          ELSE SetRight(h, n, new_node)
        place(h, d) == IF d.at = "hang" THEN Hang(h)
                       ELSE IF d.at = "null" THEN Crash(h)
                       ELSE IF d.at = "eq" THEN Splay(h, d.n)
                       ELSE count(Splay(hang(SetParent(h, new_node, d.n), d.n, d.at),
                                        new_node))
        descend(h) == place(h, SplayDescend(h, h.root_, value, Fuel))
    IN descend(NewNode(t, new_node, value, 0))

\* The join loop of Erase: the left subtree is zipped under the right one.
RECURSIVE SplayJoin(_, _, _, _, _)
\* A join that hangs the left subtree in place of the left child of the
\* right subtree and goes no further.
SplayJoinDropsLeftChild(t, cur_node, left_sub, right_sub, k) ==
    IF Bad(t) \/ left_sub = Nil THEN t
    ELSE IF right_sub = Nil \/ cur_node = Nil THEN Crash(t)
    ELSE SetParent(SetLeft(t, cur_node, left_sub), left_sub, cur_node)

SplayJoin(t, cur_node, left_sub, right_sub, k) ==
    IF Bad(t) THEN t
    ELSE IF k = 0 THEN Hang(t)
    ELSE IF left_sub = Nil THEN t
    ELSE IF right_sub = Nil \/ cur_node = Nil THEN Crash(t)
    ELSE LET right_sub1 == t.left_[right_sub]
             next(h, cur1, left_sub1) ==
                 SplayJoin(h, h.right_[cur1], left_sub1, right_sub1, k - 1)
             zip(h) ==
                 LET cur1 == h.left_[cur_node]
                 IN IF right_sub1 # Nil
                    THEN next(SetParent(SetRight(h, cur1, right_sub1), right_sub1, cur1),
                              cur1, h.right_[left_sub])
                    ELSE h
         IN zip(SetParent(SetLeft(t, cur_node, left_sub), left_sub, cur_node))

SplayErase(t, value) ==
    LET d == SplayDescend(t, t.root_, value, Fuel)
        begin_next(h) ==
            LET it == SplayIncrement(h, h.begin_)
            IN IF Bad(h) THEN h
               ELSE IF h.root_ = h.begin_
               THEN IF it.st # "ok" THEN [h EXCEPT !.st = it.st]
                    ELSE SetBegin(h, it.it)
               ELSE h
        count(h) == SetSize(h, h.size_ - 1)
        join(h) ==
            LET left_sub == h.left_[h.root_]
                right_sub == h.right_[h.root_]
                zip(x) == SplayJoin(x, x.root_, left_sub, right_sub, Fuel)
            IN zip(SetRoot(h, right_sub))
    IN IF d.at = "hang" THEN Hang(t)
       ELSE IF d.at = "null" THEN Crash(t)
       ELSE IF d.at # "eq" THEN Splay(t, d.n)
       ELSE join(count(begin_next(Splay(t, d.n))))

\* Clear: the queue visits every node that is reached from root_ by owning
\* links and empties its links; then a new sentinel is made.
SplayClear(t) ==
    LET seen == Reach(t, {t.root_})
        a(h) == [h EXCEPT !.left_ = [n \in Ptr |-> IF n \in seen THEN Nil ELSE @[n]],
                          !.right_ = [n \in Ptr |-> IF n \in seen THEN Nil ELSE @[n]],
                          !.size_ = 0]
    IN IF Bad(t) THEN t
       ELSE IF t.root_ = Nil THEN Crash(t)
       ELSE Sentinel(a(t), 0)

\* ------------------------------------------------------------------------
\* CartesianTree  (src/trees/cartesian_tree.h);  aux_ is priority_
\* ------------------------------------------------------------------------
\* CartesianTree(): the sentinel is a node of the treap like any other and
\* draws its priority from Random::Next() (rnd).
CartesianTree(rnd) ==
    LET e == MaxKey + 1
        h == NewNode(EmptyHeap, e, None, rnd)
    IN [h EXCEPT !.root_ = e, !.begin_ = e, !.end_ = e]

\* Merge: [t, n], the heap after the merge and the root of the result.
RECURSIVE Merge(_, _, _, _)
RECURSIVE MergeLargerOnTop(_, _, _, _)
MergeLargerOnTop(t, lhs, rhs, k) ==
    IF k = 0 THEN [t |-> Hang(t), n |-> Nil]
    ELSE IF lhs = Nil THEN [t |-> t, n |-> rhs]
    ELSE IF rhs = Nil THEN [t |-> t, n |-> lhs]
    ELSE IF t.aux_[lhs] > t.aux_[rhs]
    THEN LET m == MergeLargerOnTop(t, t.right_[lhs], rhs, k - 1)
             a == SetRight(m.t, lhs, m.n)
         IN [t |-> IF m.n # Nil THEN SetParent(a, m.n, lhs) ELSE a, n |-> lhs]
    ELSE LET m == MergeLargerOnTop(t, lhs, t.left_[rhs], k - 1)
             a == SetLeft(m.t, rhs, m.n)
         IN [t |-> IF m.n # Nil THEN SetParent(a, m.n, rhs) ELSE a, n |-> rhs]

Merge(t, lhs, rhs, k) ==
    IF k = 0 THEN [t |-> Hang(t), n |-> Nil]
    ELSE IF lhs = Nil THEN [t |-> t, n |-> rhs]
    ELSE IF rhs = Nil THEN [t |-> t, n |-> lhs]
    ELSE IF t.aux_[lhs] < t.aux_[rhs]
    THEN LET m == Merge(t, t.right_[lhs], rhs, k - 1)
             a == SetRight(m.t, lhs, m.n)
         IN [t |-> IF m.n # Nil THEN SetParent(a, m.n, lhs) ELSE a, n |-> lhs]
    ELSE LET m == Merge(t, lhs, t.left_[rhs], k - 1)
             a == SetLeft(m.t, rhs, m.n)
         IN [t |-> IF m.n # Nil THEN SetParent(a, m.n, rhs) ELSE a, n |-> rhs]

\* Split: [t, left_sub, right_sub]; keys <= value go left, keys > value right.
RECURSIVE Split(_, _, _, _)
\* Split without the two resets `..._sub->parent_ = std::weak_ptr<Node>()`.
RECURSIVE SplitKeepsParent(_, _, _, _)
SplitKeepsParent(t, root, value, k) ==
    IF k = 0 THEN [t |-> Hang(t), left_sub |-> Nil, right_sub |-> Nil]
    ELSE IF root = Nil THEN [t |-> Crash(t), left_sub |-> Nil, right_sub |-> Nil]
    ELSE IF OptLess(value, t.value_[root])
    THEN IF t.left_[root] = Nil
         THEN [t |-> t, left_sub |-> Nil, right_sub |-> root]
         ELSE LET s == SplitKeepsParent(t, t.left_[root], value, k - 1)
                  new_subtree == s.right_sub
                  a == SetLeft(s.t, root, new_subtree)
                  b == IF new_subtree # Nil THEN SetParent(a, new_subtree, root) ELSE a
              IN [t |-> b, left_sub |-> s.left_sub, right_sub |-> root]
    ELSE IF t.right_[root] = Nil
         THEN [t |-> t, left_sub |-> root, right_sub |-> Nil]
         ELSE LET s == SplitKeepsParent(t, t.right_[root], value, k - 1)
                  new_subtree == s.left_sub
                  a == SetRight(s.t, root, new_subtree)
                  b == IF new_subtree # Nil THEN SetParent(a, new_subtree, root) ELSE a
              IN [t |-> b, left_sub |-> root, right_sub |-> s.right_sub]
Split(t, root, value, k) ==
    IF k = 0 THEN [t |-> Hang(t), left_sub |-> Nil, right_sub |-> Nil]
    ELSE IF root = Nil THEN [t |-> Crash(t), left_sub |-> Nil, right_sub |-> Nil]
    ELSE IF OptLess(value, t.value_[root])
    THEN IF t.left_[root] = Nil
         THEN [t |-> t, left_sub |-> Nil, right_sub |-> root]
         ELSE LET s == Split(t, t.left_[root], value, k - 1)
                  new_subtree == s.right_sub
                  a == SetLeft(s.t, root, new_subtree)
                  b == IF new_subtree # Nil THEN SetParent(a, new_subtree, root) ELSE a
                  c == IF s.left_sub # Nil THEN SetParent(b, s.left_sub, Nil) ELSE b
              IN [t |-> c, left_sub |-> s.left_sub, right_sub |-> root]
    ELSE IF t.right_[root] = Nil
         THEN [t |-> t, left_sub |-> root, right_sub |-> Nil]
         ELSE LET s == Split(t, t.right_[root], value, k - 1)
                  new_subtree == s.left_sub
                  a == SetRight(s.t, root, new_subtree)
                  b == IF new_subtree # Nil THEN SetParent(a, new_subtree, root) ELSE a
                  c == IF s.right_sub # Nil THEN SetParent(b, s.right_sub, Nil) ELSE b
              IN [t |-> c, left_sub |-> root, right_sub |-> s.right_sub]

TreapIncrement(t, it) == SplayIncrement(t, it)

TreapDecrement(t, it) == RBDecrement(t, it)

TreapDereferencing(t, it) == RBDereferencing(t, it)

RECURSIVE FindRec(_, _, _, _)
FindRec(t, from, value, k) ==
    IF k = 0 THEN Cur(t.end_, "hang")
    ELSE IF from = Nil THEN Cur(t.end_, "ok")
    ELSE IF OptLess(value, t.value_[from]) THEN FindRec(t, t.left_[from], value, k - 1)
    ELSE IF OptLess(t.value_[from], value) THEN FindRec(t, t.right_[from], value, k - 1)
    ELSE Cur(from, "ok")

TreapFind(t, value) == FindRec(t, t.root_, value, Fuel)

RECURSIVE LowerBoundRec(_, _, _, _)
LowerBoundRec(t, from, value, k) ==
    IF k = 0 THEN Cur(from, "hang")
    ELSE IF OptLess(value, t.value_[from])
    THEN IF t.left_[from] # Nil THEN LowerBoundRec(t, t.left_[from], value, k - 1)
         ELSE Cur(from, "ok")
    ELSE IF OptLess(t.value_[from], value)
    THEN IF t.right_[from] # Nil THEN LowerBoundRec(t, t.right_[from], value, k - 1)
         ELSE TreapIncrement(t, from)
    ELSE Cur(from, "ok")

TreapLowerBound(t, value) ==
    IF t.root_ = Nil THEN Cur(Nil, "ub")
    ELSE IF OptLess(value, t.value_[t.root_])
    THEN IF t.left_[t.root_] # Nil THEN LowerBoundRec(t, t.left_[t.root_], value, Fuel)
         ELSE Cur(t.root_, "ok")
    ELSE IF OptLess(t.value_[t.root_], value)
    THEN IF t.right_[t.root_] # Nil THEN LowerBoundRec(t, t.right_[t.root_], value, Fuel)
         ELSE Cur(t.end_, "ok")
    ELSE Cur(t.root_, "ok")

\* InsertRec(from, new_node): [t, from, ret]; from is the new content of the
\* link that was passed by reference.
RECURSIVE InsertRec(_, _, _, _)
InsertRec(t, from, new_node, k) ==
    IF k = 0 THEN [t |-> Hang(t), from |-> from, ret |-> FALSE]
    ELSE IF from = Nil THEN [t |-> t, from |-> new_node, ret |-> TRUE]
    ELSE IF t.aux_[from] >= t.aux_[new_node]
    THEN LET merged(m, ret) == [t |-> m.t, from |-> m.n, ret |-> ret]
             merge_right(m, right_sub) == merged(Merge(m.t, m.n, right_sub, Fuel), TRUE)
             adopt(h, right_sub) ==
                 IF right_sub # Nil THEN SetParent(h, right_sub, new_node) ELSE h
             split(s) ==
                 IF Bad(s.t) THEN [t |-> s.t, from |-> from, ret |-> FALSE]
                 ELSE IF s.left_sub # Nil
                 THEN LET max_v == Rightmost(s.t, s.left_sub, Fuel)
                      IN IF max_v = Lost
                         THEN [t |-> Hang(s.t), from |-> from, ret |-> FALSE]
                         ELSE IF OptLess(s.t.value_[max_v], s.t.value_[new_node])
                         THEN merge_right(Merge(s.t, s.left_sub, new_node, Fuel),
                                          s.right_sub)
                         ELSE IF OptLess(s.t.value_[new_node], s.t.value_[max_v])
                         THEN [t |-> Throw(s.t), from |-> from, ret |-> FALSE]
                         ELSE merged(Merge(s.t, s.left_sub, s.right_sub, Fuel), FALSE)
                 ELSE [t |-> adopt(SetRight(s.t, new_node, s.right_sub), s.right_sub),
                       from |-> new_node, ret |-> TRUE]
         IN split(Split(t, from, t.value_[new_node], Fuel))
    ELSE IF OptLess(t.value_[from], t.value_[new_node])
            \/ OptLess(t.value_[new_node], t.value_[from])
    THEN IF OptLess(t.value_[new_node], t.value_[from])
         THEN LET r == InsertRec(t, t.left_[from], new_node, k - 1)
                  a == SetLeft(r.t, from, r.from)
              IN [t |-> IF a.left_[from] # Nil THEN SetParent(a, a.left_[from], from) ELSE a,
                  from |-> from, ret |-> r.ret]
         ELSE LET r == InsertRec(t, t.right_[from], new_node, k - 1)
                  a == SetRight(r.t, from, r.from)
              IN [t |-> IF a.right_[from] # Nil THEN SetParent(a, a.right_[from], from) ELSE a,
                  from |-> from, ret |-> r.ret]
    ELSE [t |-> t, from |-> from, ret |-> FALSE]

RECURSIVE EraseRec(_, _, _, _)
EraseRec(t, from, value, k) ==
    IF k = 0 THEN [t |-> Hang(t), from |-> from, ret |-> FALSE]
    ELSE IF from = Nil THEN [t |-> t, from |-> from, ret |-> FALSE]
    ELSE IF OptLess(value, t.value_[from])
    THEN LET r == EraseRec(t, t.left_[from], value, k - 1)
             a == SetLeft(r.t, from, r.from)
         IN [t |-> IF a.left_[from] # Nil THEN SetParent(a, a.left_[from], from) ELSE a,
             from |-> from, ret |-> r.ret]
    ELSE IF OptLess(t.value_[from], value)
    THEN LET r == EraseRec(t, t.right_[from], value, k - 1)
             a == SetRight(r.t, from, r.from)
         IN [t |-> IF a.right_[from] # Nil THEN SetParent(a, a.right_[from], from) ELSE a,
             from |-> from, ret |-> r.ret]
    ELSE LET merged(m) == [t |-> m.t, from |-> m.n, ret |-> TRUE]
         IN merged(Merge(t, t.left_[from], t.right_[from], Fuel))

RecalcBeginEnd(t) ==
    IF Bad(t) THEN t
    ELSE IF t.root_ = Nil THEN Crash(t)
    ELSE LET b == Leftmost(t, t.root_, Fuel)
             e == Rightmost(t, t.root_, Fuel)
         IN IF b = Lost \/ e = Lost THEN Hang(t)
            ELSE SetEnd(SetBegin(t, b), e)

TreapInsert(t, value, rnd) ==
    LET new_node == PickCell(t, value)
        count(h, ret) == IF ret /\ ~Bad(h) THEN SetSize(h, h.size_ + 1) ELSE h
        root(r) == count(SetRoot(r.t, r.from), r.ret)
    IN RecalcBeginEnd(root(InsertRec(NewNode(t, new_node, value, rnd), t.root_,
                                     new_node, Fuel)))

TreapEraseKeepsSize(t, value) ==
    LET root(r) == SetRoot(r.t, r.from)
    IN RecalcBeginEnd(root(EraseRec(t, t.root_, value, Fuel)))

TreapErase(t, value) ==
    LET count(h, ret) == IF ret /\ ~Bad(h) THEN SetSize(h, h.size_ - 1) ELSE h
        root(r) == count(SetRoot(r.t, r.from), r.ret)
    IN RecalcBeginEnd(root(EraseRec(t, t.root_, value, Fuel)))

TreapClear(t, rnd) == IF Bad(t) THEN t ELSE Sentinel(t, rnd)

\* ------------------------------------------------------------------------
\* SkipList  (src/trees/skip_list.h)
\* A skip list is [alive, down_, left_, right_, value_, head_top, end_top,
\* head_bot, end_bot, size_, st]; right_ and down_ own, left_ is weak.
\* ------------------------------------------------------------------------
SkipCap == 2 * (MaxLevel + 1) * (MaxKey + 2) + ExtraNodes
SkipNode == 1..SkipCap
SkipPtr == 0..SkipCap

\* SkipList::Optional: info_ is 'b' (head), 'v' (value) or 'e' (end).
Optional(info, value) == [info |-> info, value |-> value]
\* Optional::operator<
SkipLess(lhs, rhs) ==
    IF lhs.info = "v"
    THEN IF rhs.info = "v" THEN lhs.value < rhs.value ELSE rhs.info # "b"
    ELSE IF lhs.info = "b" THEN rhs.info = "v"
    ELSE rhs.info # "v"

SetDown(t, n, x) ==
    IF Bad(t) THEN t ELSE IF n = Nil THEN Crash(t) ELSE [t EXCEPT !.down_[n] = x]

\* make_shared<Node>: the cell of the (level, column) position when it is
\* free; column 0 is the head, MaxKey + 1 the end, a key its own column.
SkipColumn(o) == IF o.info = "b" THEN 0 ELSE IF o.info = "e" THEN MaxKey + 1 ELSE o.value
SkipPick(t, level, o) ==
    LET want == level * (MaxKey + 2) + SkipColumn(o) + 1
        free == SkipNode \ t.alive
    IN IF want \in free THEN want
       ELSE CHOOSE n \in free : \A m \in free : n <= m
SkipCanAlloc(t) == Cardinality(SkipNode \ t.alive) >= MaxLevel + 3

SkipNewNode(t, n, o) ==
    [t EXCEPT !.alive = @ \cup {n}, !.down_[n] = Nil, !.left_[n] = Nil,
              !.right_[n] = Nil, !.value_[n] = o]

RECURSIVE SkipSurvivors(_, _, _)
SkipSurvivors(t, live, held) ==
    LET owned == held \cup {t.right_[m] : m \in live} \cup {t.down_[m] : m \in live}
        keep == live \cap owned
    IN IF keep = live THEN live ELSE SkipSurvivors(t, keep, held)

\* The heap after the destructors ran, as Release for the binary trees.
SkipRelease(t, held) ==
    LET live == SkipSurvivors(t, t.alive,
                              held \cup {t.head_top, t.end_top, t.head_bot, t.end_bot})
        W(p) == IF p \in live THEN p ELSE Nil
    IN [t EXCEPT !.alive = live,
                 !.down_ = [n \in SkipPtr |-> IF n \in live THEN t.down_[n] ELSE Nil],
                 !.right_ = [n \in SkipPtr |-> IF n \in live THEN t.right_[n] ELSE Nil],
                 !.left_ = [n \in SkipPtr |-> IF n \in live THEN W(t.left_[n]) ELSE Nil],
                 !.value_ = [n \in SkipPtr |-> IF n \in live THEN t.value_[n]
                                               ELSE Optional("b", None)]]

SkipEmptyHeap ==
    [alive |-> {}, down_ |-> [n \in SkipPtr |-> Nil], left_ |-> [n \in SkipPtr |-> Nil],
     right_ |-> [n \in SkipPtr |-> Nil], value_ |-> [n \in SkipPtr |-> Optional("b", None)],
     head_top |-> Nil, end_top |-> Nil, head_bot |-> Nil, end_bot |-> Nil,
     size_ |-> 0, st |-> "ok"]

\* The body of SkipList() and of Clear(): head_bot and end_bot are new
\* nodes linked to each other, head_top = head_bot, end_top = end_bot (the
\* two nodes made for head_top and end_top are dropped at once).
SkipSentinels(t) ==
    LET hb == SkipPick(t, 0, Optional("b", None))
        a == SkipNewNode(t, hb, Optional("b", None))
        eb == SkipPick(a, 0, Optional("e", None))
        b == SkipNewNode(a, eb, Optional("e", None))
        c == [b EXCEPT !.right_[hb] = eb, !.left_[eb] = hb]
    IN [c EXCEPT !.head_top = hb, !.end_top = eb, !.head_bot = hb, !.end_bot = eb,
                 !.size_ = 0]

\* SkipList(): one level, head_top = head_bot and end_top = end_bot.
SkipList ==
    LET hb == SkipPick(SkipEmptyHeap, 0, Optional("b", None))
        eb == SkipPick(SkipEmptyHeap, 0, Optional("e", None))
        a == SkipNewNode(SkipNewNode(SkipEmptyHeap, hb, Optional("b", None)),
                         eb, Optional("e", None))
        b == SetLeft(SetRight(a, hb, eb), eb, hb)
    IN [b EXCEPT !.head_top = hb, !.end_top = eb, !.head_bot = hb, !.end_bot = eb]

\* while (it_->down_) it_ = it_->down_;
RECURSIVE SkipBottom(_, _, _)
SkipBottom(t, it, k) ==
    IF k = 0 THEN Lost
    ELSE IF t.down_[it] # Nil THEN SkipBottom(t, t.down_[it], k - 1) ELSE it
\* The number of levels below a node.
RECURSIVE SkipLevelOf(_, _, _)
SkipLevelOf(t, it, k) ==
    IF k = 0 \/ it = Nil THEN 0
    ELSE IF t.down_[it] # Nil THEN 1 + SkipLevelOf(t, t.down_[it], k - 1) ELSE 0

SkipFuel == SkipCap + 2

SkipIncrement(t, it) ==
    IF it = Nil THEN Cur(it, "ub")
    ELSE LET b == SkipBottom(t, it, SkipFuel)
         IN IF b = Lost THEN Cur(it, "hang")
            ELSE IF t.right_[b] = Nil THEN Cur(b, "throw")
            ELSE Cur(t.right_[b], "ok")

\* The cursor moves left before the check is made.
SkipDecrement(t, it) ==
    IF it = Nil THEN Cur(it, "ub")
    ELSE LET b == SkipBottom(t, it, SkipFuel)
         IN IF b = Lost THEN Cur(it, "hang")
            ELSE LET l == t.left_[b]
                 IN IF l = Nil THEN Cur(l, "ub")
                    ELSE IF t.left_[l] = Nil THEN Cur(l, "throw")
                    ELSE Cur(l, "ok")

SkipDereferencing(t, it) ==
    IF it = Nil THEN [v |-> None, st |-> "ub"]
    ELSE IF t.value_[it].info # "v" THEN [v |-> None, st |-> "throw"]
    ELSE [v |-> t.value_[it].value, st |-> "ok"]

SkipIsEqual(t, a, b) ==
    IF a = Nil \/ b = Nil THEN FALSE
    ELSE SkipBottom(t, a, SkipFuel) = SkipBottom(t, b, SkipFuel)

SkipBegin(t) == t.right_[t.head_bot]
SkipEnd(t) == t.end_top

RECURSIVE SkipFindRecursive(_, _, _, _)
SkipFindRecursive(t, from, value, k) ==
    IF k = 0 THEN Cur(from, "hang")
    ELSE IF from = Nil THEN Cur(from, "ub")
    ELSE IF t.right_[from] = Nil THEN Cur(SkipEnd(t), "ok")
    ELSE IF SkipLess(t.value_[t.right_[from]], value)
    THEN SkipFindRecursive(t, t.right_[from], value, k - 1)
    ELSE IF t.down_[from] = Nil
    THEN IF SkipLess(value, t.value_[t.right_[from]]) THEN Cur(SkipEnd(t), "ok")
         ELSE Cur(t.right_[from], "ok")
    ELSE SkipFindRecursive(t, t.down_[from], value, k - 1)

SkipFind(t, value) == SkipFindRecursive(t, t.head_top, Optional("v", value), SkipFuel)

RECURSIVE SkipLowerBoundRecursive(_, _, _, _)
SkipLowerBoundRecursive(t, from, value, k) ==
    IF k = 0 THEN Cur(from, "hang")
    ELSE IF from = Nil \/ t.right_[from] = Nil THEN Cur(from, "ub")
    ELSE IF SkipLess(t.value_[t.right_[from]], value)
    THEN SkipLowerBoundRecursive(t, t.right_[from], value, k - 1)
    ELSE IF t.down_[from] = Nil THEN Cur(t.right_[from], "ok")
    ELSE SkipLowerBoundRecursive(t, t.down_[from], value, k - 1)

SkipLowerBound(t, value) ==
    SkipLowerBoundRecursive(t, t.head_top, Optional("v", value), SkipFuel)

\* new_from->left_.lock() = prev_from assigns to a temporary: the left_ link
\* of the node after the removed one is not changed.
RECURSIVE RemoveLevels(_, _, _)
\* An erase that unlinks the topmost cell of the tower only.
RemoveLevelsTopOnly(t, from0, k) == t

RemoveLevels(t, from0, k) ==
    IF Bad(t) THEN t
    ELSE IF k = 0 THEN Hang(t)
    ELSE IF t.down_[from0] # Nil
    THEN LET from == t.down_[from0]
             prev_from == t.left_[from]
             new_from == t.right_[from]
             a(h) == SetRight(h, prev_from, new_from)
             b(h) == IF new_from = Nil THEN Crash(h) ELSE h
         IN RemoveLevels(b(a(t)), from, k - 1)
    ELSE t

\* EraseRecursive: [t, ret]
RECURSIVE SkipEraseRecursive(_, _, _, _)
SkipEraseRecursive(t, from, value, k) ==
    IF k = 0 THEN [t |-> Hang(t), ret |-> FALSE]
    ELSE IF from = Nil THEN [t |-> Crash(t), ret |-> FALSE]
    ELSE IF t.right_[from] = Nil THEN [t |-> t, ret |-> FALSE]
    ELSE IF SkipLess(t.value_[t.right_[from]], value)
    THEN SkipEraseRecursive(t, t.right_[from], value, k - 1)
    ELSE IF SkipLess(value, t.value_[t.right_[from]])
    THEN IF t.down_[from] = Nil THEN [t |-> t, ret |-> FALSE]
         ELSE SkipEraseRecursive(t, t.down_[from], value, k - 1)
    ELSE LET cur_node == t.right_[from]
             new_from == t.right_[cur_node]
             a == SetRight(SetLeft(t, new_from, from), from, new_from)
         IN [t |-> RemoveLevels(a, cur_node, SkipFuel), ret |-> TRUE]

SkipErase(t, value) ==
    LET count(r) == IF r.ret /\ ~Bad(r.t) THEN SetSize(r.t, r.t.size_ - 1) ELSE r.t
    IN count(SkipEraseRecursive(t, t.head_top, Optional("v", value), SkipFuel))

\* BuildLvl with Random::Next() giving 0 exactly rnd times: rnd promotions.
RECURSIVE BuildLvl(_, _, _, _)
BuildLvl(t, node_path, from, rnd) ==
    IF Bad(t) \/ rnd = 0 THEN t
    ELSE LET level == SkipLevelOf(t, from, SkipFuel) + 1
             up_node == SkipPick(t, level, t.value_[from])
             a(h) == SetDown(SkipNewNode(h, up_node, h.value_[from]), up_node, from)
             \* node_path.size() != 0
             link(h) ==
                 LET prev == node_path[Len(node_path)]
                     b(x) == SetRight(SetLeft(x, up_node, prev), up_node, x.right_[prev])
                     c(x) == SetLeft(x, x.right_[prev], up_node)
                     d(x) == SetRight(x, prev, up_node)
                 IN d(c(b(h)))
             \* a new top level
             grow(h) ==
                 LET tmp_head == h.head_top
                     tmp_end == h.end_top
                     new_head == SkipPick(h, level, Optional("b", None))
                     ends(x, new_end) ==
                         LET c(y) == SkipNewNode(y, new_end, Optional("e", None))
                             d(y) == SetRight(SetDown(y, new_head, tmp_head),
                                              new_head, up_node)
                             e(y) == SetRight(SetLeft(y, up_node, new_head),
                                              up_node, new_end)
                             f(y) == SetLeft(SetDown(y, new_end, tmp_end),
                                             new_end, up_node)
                             g(y) == IF Bad(y) THEN y
                                     ELSE [y EXCEPT !.head_top = new_head,
                                                    !.end_top = new_end]
                         IN g(f(e(d(c(x)))))
                     b(x) == ends(x, SkipPick(x, level, Optional("e", None)))
                 IN b(SkipNewNode(h, new_head, Optional("b", None)))
         IN IF Len(node_path) # 0
            THEN BuildLvl(link(a(t)), SubSeq(node_path, 1, Len(node_path) - 1),
                          up_node, rnd - 1)
            ELSE BuildLvl(grow(a(t)), node_path, up_node, rnd - 1)

\* InsertRecursive: [t, ret]
RECURSIVE SkipInsertRecursive(_, _, _, _, _, _)
SkipInsertRecursive(t, from, new_node, node_path, rnd, k) ==
    IF k = 0 THEN [t |-> Hang(t), ret |-> FALSE]
    ELSE IF from = Nil THEN [t |-> Crash(t), ret |-> FALSE]
    ELSE IF t.right_[from] = Nil THEN [t |-> t, ret |-> FALSE]
    ELSE IF SkipLess(t.value_[t.right_[from]], t.value_[new_node])
    THEN SkipInsertRecursive(t, t.right_[from], new_node, node_path, rnd, k - 1)
    ELSE IF t.down_[from] # Nil
    THEN SkipInsertRecursive(t, t.down_[from], new_node, Append(node_path, from), rnd, k - 1)
    ELSE IF SkipLess(t.value_[new_node], t.value_[t.right_[from]])
    THEN LET a(h) == SetRight(SetLeft(h, new_node, from), new_node, h.right_[from])
             b(h) == SetLeft(h, h.right_[from], new_node)
             c(h) == SetRight(h, from, new_node)
         IN [t |-> BuildLvl(c(b(a(t))), node_path, new_node, rnd), ret |-> TRUE]
    ELSE [t |-> t, ret |-> FALSE]

SkipInsert(t, value, rnd) ==
    LET new_node == SkipPick(t, 0, Optional("v", value))
        count(r) == IF r.ret /\ ~Bad(r.t) THEN SetSize(r.t, r.t.size_ + 1) ELSE r.t
    IN count(SkipInsertRecursive(SkipNewNode(t, new_node, Optional("v", value)),
                                 t.head_top, new_node, <<>>, rnd, SkipFuel))

SkipClear(t) == IF Bad(t) THEN t ELSE SkipSentinels(t)

\* The heap with the cells a and b exchanged: the same nodes and links under
\* other numbers.
SwapCells(t, a, b) ==
    LET P(x) == IF x = a THEN b ELSE IF x = b THEN a ELSE x
    IN [t EXCEPT !.alive = {P(n) : n \in t.alive},
                 !.left_ = [n \in Ptr |-> P(t.left_[P(n)])],
                 !.right_ = [n \in Ptr |-> P(t.right_[P(n)])],
                 !.parent_ = [n \in Ptr |-> P(t.parent_[P(n)])],
                 !.value_ = [n \in Ptr |-> t.value_[P(n)]],
                 !.aux_ = [n \in Ptr |-> t.aux_[P(n)]],
                 !.root_ = P(t.root_), !.begin_ = P(t.begin_), !.end_ = P(t.end_)]
Renumber(t, held) ==
    IF Bad(t) \/ held # {} \/ t.end_ = Nil THEN t ELSE SwapCells(t, t.end_, MaxKey + 1)
SkipSwapCells(t, a, b) ==
    LET P(x) == IF x = a THEN b ELSE IF x = b THEN a ELSE x
    IN [t EXCEPT !.alive = {P(n) : n \in t.alive},
                 !.down_ = [n \in SkipPtr |-> P(t.down_[P(n)])],
                 !.left_ = [n \in SkipPtr |-> P(t.left_[P(n)])],
                 !.right_ = [n \in SkipPtr |-> P(t.right_[P(n)])],
                 !.value_ = [n \in SkipPtr |-> t.value_[P(n)]],
                 !.head_top = P(t.head_top), !.end_top = P(t.end_top),
                 !.head_bot = P(t.head_bot), !.end_bot = P(t.end_bot)]
SkipRenumber(t, held) ==
    IF Bad(t) \/ held # {} \/ t.head_bot = Nil \/ t.end_bot = Nil THEN t
    ELSE LET a == SkipSwapCells(t, t.head_bot, 1)
         IN SkipSwapCells(a, a.end_bot, MaxKey + 2)

\* ------------------------------------------------------------------------
\* The ITree contract: dispatch on the variant  (src/trees/abstract_tree.h)
\* ------------------------------------------------------------------------
Variants == {"AVL", "RB", "Splay", "Treap", "Skip"}

\* MakeTree<T>(type): the freshly constructed set.  rnd is what the random
\* generator hands out during the call (a treap priority, the number of
\* skip-list promotions); the other variants draw nothing.
MakeTree(kind, rnd) ==
    CASE kind = "AVL" -> AVLTree
      [] kind = "RB" -> RBTree
      [] kind = "Splay" -> SplayTree
      [] kind = "Treap" -> CartesianTree(rnd)
      [] kind = "Skip" -> SkipList

\* make_shared succeeds: the bounded heap has room for the nodes of a call.
HasRoom(kind, t) == IF kind = "Skip" THEN SkipCanAlloc(t) ELSE CanAlloc(t)

\* The destructors that run when a call returns; held are the nodes the
\* caller's cursors keep alive.
release(kind, t, held) ==
    IF kind = "Skip" THEN SkipRelease(t, held) ELSE Release(t, held)

\* ITree::insert / erase / clear: the set after the call, destructors run.
insert(kind, t, value, rnd, held) ==
    CASE kind = "AVL" -> Release(AVLInsert(t, value), held)
      [] kind = "RB" -> Release(RBInsert(t, value), held)
      [] kind = "Splay" -> Release(SplayInsert(t, value), held)
      [] kind = "Treap" -> Release(TreapInsert(t, value, rnd), held)
      [] kind = "Skip" -> SkipRelease(SkipInsert(t, value, rnd), held)
erase(kind, t, value, held) ==
    CASE kind = "AVL" -> Release(AVLErase(t, value), held)
      [] kind = "RB" -> Release(RBErase(t, value), held)
      [] kind = "Splay" -> Release(SplayErase(t, value), held)
      [] kind = "Treap" -> Release(TreapErase(t, value), held)
      [] kind = "Skip" -> SkipRelease(SkipErase(t, value), held)
\* When nothing outside the set refers to its nodes, the new sentinels are
\* numbered as the constructor numbers them (which cell a node is in has no
\* effect on any operation).
clear(kind, t, rnd, held) ==
    CASE kind = "AVL" -> Release(AVLClear(t), held)
      [] kind = "RB" -> Release(RBClear(t), held)
      [] kind = "Splay" -> Renumber(Release(SplayClear(t), held), held)
      [] kind = "Treap" -> Renumber(Release(TreapClear(t, rnd), held), held)
      [] kind = "Skip" -> SkipRenumber(SkipRelease(SkipClear(t), held), held)

\* ITree::find / lower_bound: [t: the set after the call, it, st].
find(kind, t, value) ==
    CASE kind = "AVL" -> [t |-> t] @@ AVLFind(t, value)
      [] kind = "RB" -> [t |-> t] @@ RBFind(t, value)
      [] kind = "Splay" -> SplayFind(t, value)
      [] kind = "Treap" -> [t |-> t] @@ TreapFind(t, value)
      [] kind = "Skip" -> [t |-> t] @@ SkipFind(t, value)
lower_bound(kind, t, value) ==
    CASE kind = "AVL" -> [t |-> t] @@ AVLLowerBound(t, value)
      [] kind = "RB" -> [t |-> t] @@ RBLowerBound(t, value)
      [] kind = "Splay" -> SplayLowerBound(t, value)
      [] kind = "Treap" -> [t |-> t] @@ TreapLowerBound(t, value)
      [] kind = "Skip" -> [t |-> t] @@ SkipLowerBound(t, value)

\* ITree::begin / end and the iterator's operators.
begin(kind, t) ==
    CASE kind = "AVL" -> t.begin_
      [] kind = "RB" -> t.begin_
      [] kind = "Splay" -> t.begin_
      [] kind = "Treap" -> t.begin_
      [] kind = "Skip" -> SkipBegin(t)
end(kind, t) ==
    CASE kind = "AVL" -> t.end_
      [] kind = "RB" -> t.end_
      [] kind = "Splay" -> t.end_
      [] kind = "Treap" -> t.end_
      [] kind = "Skip" -> SkipEnd(t)
size(kind, t) == t.size_
empty(kind, t) == t.size_ = 0
Increment(kind, t, it) ==
    CASE kind = "AVL" -> AVLIncrement(t, it)
      [] kind = "RB" -> RBIncrement(t, it)
      [] kind = "Splay" -> SplayIncrement(t, it)
      [] kind = "Treap" -> TreapIncrement(t, it)
      [] kind = "Skip" -> SkipIncrement(t, it)
Decrement(kind, t, it) ==
    CASE kind = "AVL" -> AVLDecrement(t, it)
      [] kind = "RB" -> RBDecrement(t, it)
      [] kind = "Splay" -> SplayDecrement(t, it)
      [] kind = "Treap" -> TreapDecrement(t, it)
      [] kind = "Skip" -> SkipDecrement(t, it)
Dereferencing(kind, t, it) ==
    CASE kind = "AVL" -> AVLDereferencing(t, it)
      [] kind = "RB" -> RBDereferencing(t, it)
      [] kind = "Splay" -> SplayDereferencing(t, it)
      [] kind = "Treap" -> TreapDereferencing(t, it)
      [] kind = "Skip" -> SkipDereferencing(t, it)
\* ITree::iterator::operator->: pimpl_->Arrow(), which makes the check that
\* Dereferencing makes and gives the address of the value.
Arrow(kind, t, it) == Dereferencing(kind, t, it)
IsEqual(kind, t, a, b) ==
    CASE kind = "AVL" -> a = b
      [] kind = "RB" -> a = b
      [] kind = "Splay" -> a = b
      [] kind = "Treap" -> a = b
      [] kind = "Skip" -> SkipIsEqual(t, a, b)

\* ------------------------------------------------------------------------
\* Observers used by the tests  (src/tests/full_test_set.h)
\* ------------------------------------------------------------------------
\* operator==(std::set<T>, std::shared_ptr<ITree<T>>) walks the tree from
\* begin(): *tree_it, ++tree_it, until tree_it == end().  The values seen
\* and how the walk ended: "ok" at end(), else the failure that stopped it.
RECURSIVE Walk(_, _, _, _, _)
Walk(kind, t, it, acc, k) ==
    IF IsEqual(kind, t, it, end(kind, t)) THEN [seq |-> acc, st |-> "ok"]
    ELSE IF k = 0 THEN [seq |-> acc, st |-> "hang"]
    ELSE LET d == Dereferencing(kind, t, it)
             n == Increment(kind, t, it)
         IN IF d.st # "ok" THEN [seq |-> acc, st |-> d.st]
            ELSE IF n.st # "ok" THEN [seq |-> Append(acc, d.v), st |-> n.st]
            ELSE Walk(kind, t, n.it, Append(acc, d.v), k - 1)

Traversal(kind, t) == Walk(kind, t, begin(kind, t), <<>>, Fuel)

\* The walk back from end() with operator--, down to begin().
RECURSIVE WalkBack(_, _, _, _, _)
WalkBack(kind, t, it, acc, k) ==
    IF IsEqual(kind, t, it, begin(kind, t)) THEN [seq |-> acc, st |-> "ok"]
    ELSE IF k = 0 THEN [seq |-> acc, st |-> "hang"]
    ELSE LET p == Decrement(kind, t, it)
             d == Dereferencing(kind, t, p.it)
         IN IF p.st # "ok" THEN [seq |-> acc, st |-> p.st]
            ELSE IF d.st # "ok" THEN [seq |-> acc, st |-> d.st]
            ELSE WalkBack(kind, t, p.it, <<d.v>> \o acc, k - 1)

Reverse(kind, t) == WalkBack(kind, t, end(kind, t), <<>>, Fuel)

\* ------------------------------------------------------------------------
\* The program: one set object of one variant, the reference std::set the
\* tests drive by the same calls, and one cursor held by the caller
\* ------------------------------------------------------------------------
VARIABLES kind, tree, ref, cur, last, hist, other
\* The benchmark program: the locals of RunBenchmarks, and how far each
\* RunBench thread has got.
VARIABLES runner, thread
vars == <<kind, tree, ref, cur, last, hist, other, runner, thread>>

\* What the random generators can hand out during a call.
CtorRnd(k) == IF k = "Treap" THEN 1..MaxPrio ELSE {0}
InsertRnd(k) == IF k = "Treap" THEN 1..MaxPrio ELSE IF k = "Skip" THEN 0..MaxLevel ELSE {0}

\* A cursor of the caller: held counts the mutating calls made while the
\* caller has held it.
NoCursor == [has |-> FALSE, it |-> Nil, held |-> 0]
At(it) == [has |-> TRUE, it |-> it, held |-> 0]
\* No second set has been constructed.
NoOther == [has |-> FALSE, calls |-> 0]
\* The members of a set object: the nodes they refer to are in the heap, r
\* is the reference set of the object.
Members(k, t, r, n) ==
    IF k = "Skip"
    THEN [has |-> TRUE, head_top |-> t.head_top, end_top |-> t.end_top,
          head_bot |-> t.head_bot, end_bot |-> t.end_bot, size_ |-> t.size_, ref |-> r, calls |-> n]
    ELSE [has |-> TRUE, root_ |-> t.root_, begin_ |-> t.begin_, end_ |-> t.end_,
          size_ |-> t.size_, ref |-> r, calls |-> n]
\* One more call was made while a second set exists.
Tick(o) == IF o.has THEN [o EXCEPT !.calls = @ + 1] ELSE o
\* The caller has calls left to make.
Budget == other.calls < MaxAfter
\* The heap with the members of o in place: the object o as the operations
\* of its class see it.
Face(k, t, o) ==
    IF k = "Skip"
    THEN [t EXCEPT !.head_top = o.head_top, !.end_top = o.end_top,
                   !.head_bot = o.head_bot, !.end_bot = o.end_bot, !.size_ = o.size_]
    ELSE [t EXCEPT !.root_ = o.root_, !.begin_ = o.begin_, !.end_ = o.end_,
                   !.size_ = o.size_]
\* The nodes the shared_ptr members of o own.
Owned(k, o) ==
    (IF k = "Skip" THEN {o.head_top, o.end_top, o.head_bot, o.end_bot}
     ELSE {o.root_, o.begin_, o.end_}) \ {Nil}
\* The nodes something outside the set under call keeps alive: the cursor of
\* the caller and the members of the second set.
Held == (IF cur.has THEN {cur.it} ELSE {}) \cup (IF other.has THEN Owned(kind, other) ELSE {})

\* The record of the call that was made last: its name, its argument (for
\* ++ and -- the value under the cursor before the call), how it ended, the
\* value under the resulting cursor, and for ++ and -- whether the cursor
\* was equal to begin() or end() before the call.
Call(op, arg, st, val, edge) ==
    [op |-> op, arg |-> arg, st |-> st, val |-> val, edge |-> edge]
\* A call that crashed or never returned ends the program, and so does the
\* destruction of the set.
Running == last.st \in {"ok", "throw"} /\ last.op # "destroy"
\* An exception is caught by the caller and the object is used again.
Caught(t) == IF t.st = "throw" THEN [t EXCEPT !.st = "ok"] ELSE t

\* The value under a cursor, None when it cannot be dereferenced.
Under(k, t, it) ==
    LET d == Dereferencing(k, t, it) IN IF d.st = "ok" THEN d.v ELSE None
EdgeOf(k, t, it) ==
    LET b == IsEqual(k, t, it, begin(k, t))
        e == IsEqual(k, t, it, end(k, t))
    IN IF b /\ e THEN "both" ELSE IF b THEN "begin" ELSE IF e THEN "end" ELSE "none"

\* The benchmarks of benchmarks_, in the order of the map.
Bench == 1..MaxBench
\* RunBenchmarks has not been called.
NoRunner == [pc |-> "idle", it |-> 1, threads |-> <<>>, accepts |-> {}]

Init ==
    /\ kind \in Variants
    /\ \E rnd \in CtorRnd(kind) : tree = MakeTree(kind, rnd)
    /\ ref = {}
    /\ cur = NoCursor
    /\ last = Call("new", None, "ok", None, "none")
    /\ hist = "fresh"
    /\ other = NoOther
    /\ runner = NoRunner
    /\ thread = [b \in Bench |-> "none"]

Insert(e) ==
    /\ Running
    /\ Budget
    /\ ~cur.has
    /\ HasRoom(kind, tree)
    /\ tree.size_ < SizeCap
    /\ \E rnd \in InsertRnd(kind) :
         \E t \in {insert(kind, tree, e, rnd, Held)} :
            /\ tree' = Caught(t)
            /\ last' = Call("insert", e, t.st, None, "none")
    /\ ref' = ref \cup {e}
    /\ hist' = IF hist \in {"fresh", "ins"} THEN "ins" ELSE "mixed"
    /\ other' = Tick(other)
    /\ UNCHANGED <<runner, thread, kind, cur>>

Erase(e) ==
    /\ Running
    /\ Budget
    /\ ~cur.has
    /\ \E t \in {erase(kind, tree, e, Held)} :
          /\ tree' = Caught(t)
          /\ last' = Call("erase", e, t.st, None, "none")
    /\ ref' = ref \ {e}
    /\ hist' = IF hist \in {"ins", "era"} /\ e \in ref THEN "era" ELSE "mixed"
    /\ other' = Tick(other)
    /\ UNCHANGED <<runner, thread, kind, cur>>

Clear ==
    /\ Running
    /\ Budget
    /\ ~cur.has
    /\ HasRoom(kind, tree)
    /\ \E rnd \in CtorRnd(kind) :
         \E t \in {clear(kind, tree, rnd, Held)} :
            /\ tree' = Caught(t)
            /\ last' = Call("clear", None, t.st, None, "none")
    /\ ref' = {}
    /\ hist' = IF ref = {} THEN "mixed" ELSE "cleared"
    /\ other' = Tick(other)
    /\ UNCHANGED <<runner, thread, kind, cur>>

\* A call that returns a cursor: the caller keeps it in place of the old one.
Return(op, e, r) ==
    \E c \in {IF r.st = "ok" THEN At(r.it) ELSE cur} :
    \E t \in {IF r.st \in {"ok", "throw"}
              THEN release(kind, Caught(r.t), {c.it} \ {Nil}) ELSE r.t} :
       /\ tree' = t
       /\ cur' = c
       /\ last' = Call(op, e, r.st, IF r.st = "ok" THEN Under(kind, t, r.it) ELSE None,
                       "none")
       /\ hist' = "mixed"
       /\ UNCHANGED <<runner, thread, kind, ref, other>>

Find(e) == Running /\ Return("find", e, find(kind, tree, e))

LowerBound(e) == Running /\ Return("lower_bound", e, lower_bound(kind, tree, e))

Begin == Running /\ Return("begin", None, [t |-> tree] @@ Cur(begin(kind, tree), "ok"))

End == Running /\ Return("end", None, [t |-> tree] @@ Cur(end(kind, tree), "ok"))

\* operator++ / operator-- on the held cursor: the cursor is where the call
\* left it, also when the call threw.
Step(op, r) ==
    \E t \in {IF r.st \in {"ok", "throw"} THEN release(kind, tree, {r.it} \ {Nil})
              ELSE tree} :
       /\ tree' = t
       /\ cur' = IF r.st \in {"ok", "throw"} THEN [At(r.it) EXCEPT !.held = cur.held]
                ELSE cur
       /\ last' = Call(op, Under(kind, tree, cur.it), r.st,
                       IF r.st = "ok" THEN Under(kind, t, r.it) ELSE None,
                       EdgeOf(kind, tree, cur.it))
       /\ hist' = "mixed"
       /\ UNCHANGED <<runner, thread, kind, ref, other>>

PlusPlus == Running /\ cur.has /\ Step("++", Increment(kind, tree, cur.it))

MinusMinus == Running /\ cur.has /\ Step("--", Decrement(kind, tree, cur.it))

\* ~iterator: the caller lets go of its cursor.
Drop ==
    /\ Running
    /\ cur.has
    /\ cur' = NoCursor
    /\ tree' = release(kind, tree, {})
    /\ last' = Call("drop", None, "ok", None, "none")
    /\ hist' = "mixed"
    /\ UNCHANGED <<runner, thread, kind, ref, other>>

\* operator*
Star ==
    /\ Running
    /\ cur.has
    /\ LET d == Dereferencing(kind, tree, cur.it)
       IN last' = Call("*", None, d.st, d.v, "none")
    /\ hist' = "mixed"
    /\ UNCHANGED <<runner, thread, kind, tree, ref, cur, other>>

\* operator->
ArrowOp ==
    /\ Running
    /\ cur.has
    /\ LET d == Arrow(kind, tree, cur.it)
       IN last' = Call("->", None, d.st, d.v, "none")
    /\ hist' = "mixed"
    /\ UNCHANGED <<runner, thread, kind, tree, ref, cur, other>>

Next ==
    \/ \E e \in Key : Insert(e)
    \/ \E e \in Key : Erase(e)
    \/ Clear
    \/ \E e \in Key : Find(e)
    \/ \E e \in Key : LowerBound(e)
    \/ Begin
    \/ End
    \/ PlusPlus
    \/ MinusMinus
    \/ Star
    \/ ArrowOp
    \/ Drop

Spec == Init /\ [][Next]_vars

\* ------------------------------------------------------------------------
\* Copies and moves: a second set D next to the set S, in one heap
\* ------------------------------------------------------------------------
\* The default constructor, for an object that is built while other objects
\* have nodes in the heap.
Construct(k, t, rnd) ==
    CASE k = "AVL" -> Sentinel(t, 1)
      [] k = "RB" -> Sentinel(t, Red)
      [] k = "Splay" -> Sentinel(t, 0)
      [] k = "Treap" -> Sentinel(t, rnd)
      [] k = "Skip" -> SkipSentinels(t)

\* SkipList::operator=(const SkipList&) before its loop: four new sentinels
\* on two levels, the top pair above the bottom pair.
SkipTwoLevels(t) ==
    LET b == Optional("b", None)
        e == Optional("e", None)
        hb == SkipPick(t, 0, b)
        t1 == SkipNewNode(t, hb, b)
        eb == SkipPick(t1, 0, e)
        t2 == SkipNewNode(t1, eb, e)
        ht == SkipPick(t2, 1, b)
        t3 == SkipNewNode(t2, ht, b)
        et == SkipPick(t3, 1, e)
        t4 == SkipNewNode(t3, et, e)
    IN [t4 EXCEPT !.right_[ht] = et, !.left_[et] = ht,
                  !.right_[hb] = eb, !.left_[eb] = hb,
                  !.down_[ht] = hb, !.down_[et] = eb,
                  !.head_top = ht, !.end_top = et, !.head_bot = hb, !.end_bot = eb,
                  !.size_ = 0]

\* The copy assignment operators before their loop: new sentinel(s), size_ 0.
Reset(k, t, rnd) == IF k = "Skip" THEN SkipTwoLevels(t) ELSE Construct(k, t, rnd)

\* for (const T& value : other) Insert(value), on the values the walk gave;
\* rs are the draws of the random generator, one per Insert.
RECURSIVE InsertAll(_, _, _, _, _)
InsertAll(k, t, seq, rs, held) ==
    IF seq = <<>> \/ Bad(t) THEN t
    ELSE InsertAll(k, insert(k, t, Head(seq), rs[Head(seq)], held), Tail(seq), rs, held)

\* The loop of the copy constructor and of the copy assignment: t carries
\* the members of the object under construction, w is the walk of the
\* object that is copied. A walk that throws, crashes or never ends does so
\* inside the loop.
CopyLoop(k, t, w, rs, held) ==
    LET f == InsertAll(k, t, w.seq, rs, held)
    IN IF w.st = "ok" \/ Bad(f) THEN f ELSE [f EXCEPT !.st = w.st]

\* The nodes a copy of src allocates at most: its sentinels, a node per
\* level of each value, and a pair of sentinels per new level; one more for
\* the node an Insert of a value already present allocates.
RECURSIVE DrawSum(_, _)
DrawSum(S, rs) ==
    IF S = {} THEN 0
    ELSE LET x == CHOOSE y \in S : TRUE IN 1 + rs[x] + DrawSum(S \ {x}, rs)
Seen(w) == {w.seq[i] : i \in 1..Len(w.seq)}
CopyRoom(k, t, w, rs) ==
    IF k = "Skip"
    THEN Cardinality(SkipNode \ t.alive) >= 4 + DrawSum(Seen(w), rs) + 2 * MaxLevel + 1
    ELSE Cardinality(FreeCells(t)) >= Cardinality(Seen(w)) + 2

\* The member-wise std::swap of the move operations: the heap is as it was,
\* the two objects have each other's members.
SwapMembers(k, t, o, r) ==
    [mine |-> Face(k, t, o), theirs |-> Members(k, t, r, o.calls + 1)]

\* SkipList(SkipList&&) has no default constructor in front of its swaps: the
\* new object's shared_ptr members are null and its size_ has no value yet,
\* and these are what other has after the swaps.
SkipMovedFrom(t, garbage) ==
    [t EXCEPT !.head_top = Nil, !.end_top = Nil, !.head_bot = Nil, !.end_bot = Nil,
              !.size_ = garbage]

\* D(S): the copy constructor.
CopyConstruct ==
    /\ Running
    /\ ~cur.has
    /\ ~other.has
    /\ \E crnd \in CtorRnd(kind) : \E w \in {Traversal(kind, tree)} :
       \E rs \in [Seen(w) -> InsertRnd(kind)] :
         /\ CopyRoom(kind, tree, w, rs)
         /\ \E t \in {CopyLoop(kind, Construct(kind, tree, crnd), w, rs,
                               Owned(kind, tree))} :
              /\ tree' = IF t.st = "throw" THEN tree ELSE Face(kind, t, tree)
              /\ other' = IF t.st = "throw" THEN NoOther ELSE Members(kind, t, ref, 0)
              /\ last' = Call("copy", None, t.st, None, "none")
    /\ hist' = "mixed"
    /\ UNCHANGED <<runner, thread, kind, ref, cur>>

\* D = S: the copy assignment; the two objects are never one object here, so
\* the self-assignment test fails.
CopyAssign ==
    /\ Running
    /\ Budget
    /\ ~cur.has
    /\ other.has
    /\ \E crnd \in CtorRnd(kind) : \E w \in {Traversal(kind, tree)} :
       \E rs \in [Seen(w) -> InsertRnd(kind)] :
         /\ CopyRoom(kind, tree, w, rs)
         /\ \E t \in {release(kind,
                              CopyLoop(kind, Reset(kind, tree, crnd), w, rs,
                                       Owned(kind, tree)),
                              Owned(kind, tree))} :
              /\ tree' = Face(kind, Caught(t), tree)
              /\ other' = Members(kind, t, ref, other.calls + 1)
              /\ last' = Call("copy=", None, t.st, None, "none")
    /\ hist' = "mixed"
    /\ UNCHANGED <<runner, thread, kind, ref, cur>>

\* D(std::move(S)): the move constructor.
MoveConstruct ==
    /\ Running
    /\ ~cur.has
    /\ ~other.has
    /\ HasRoom(kind, tree)
    /\ \E crnd \in CtorRnd(kind) : \E garbage \in 0..SizeCap :
         \E t \in {IF kind = "Skip" THEN SkipMovedFrom(tree, garbage)
                   ELSE Construct(kind, tree, crnd)} :
            /\ tree' = t
            /\ other' = Members(kind, tree, ref, 0)
    /\ last' = Call("move", None, "ok", None, "none")
    /\ ref' = {}
    /\ hist' = "mixed"
    /\ UNCHANGED <<runner, thread, kind, cur>>

\* D = std::move(S): the move assignment.
MoveAssign ==
    /\ Running
    /\ Budget
    /\ ~cur.has
    /\ other.has
    /\ \E m \in {SwapMembers(kind, tree, other, ref)} :
         /\ tree' = m.mine
         /\ other' = m.theirs
    /\ last' = Call("move=", None, "ok", None, "none")
    /\ ref' = {}
    /\ hist' = "mixed"
    /\ UNCHANGED <<runner, thread, kind, cur>>

\* D.insert(e), D.erase(e), D.clear(): the calls of S, on the members of D.
OtherInsert(e) ==
    /\ Running
    /\ Budget
    /\ ~cur.has
    /\ other.has
    /\ HasRoom(kind, tree)
    /\ other.size_ < SizeCap
    /\ \E rnd \in InsertRnd(kind) :
         \E t \in {insert(kind, Face(kind, tree, other), e, rnd, Owned(kind, tree))} :
            /\ tree' = Face(kind, Caught(t), tree)
            /\ other' = Members(kind, t, other.ref \cup {e}, other.calls + 1)
            /\ last' = Call("D.insert", e, t.st, None, "none")
    /\ hist' = "mixed"
    /\ UNCHANGED <<runner, thread, kind, ref, cur>>

OtherErase(e) ==
    /\ Running
    /\ Budget
    /\ ~cur.has
    /\ other.has
    /\ \E t \in {erase(kind, Face(kind, tree, other), e, Owned(kind, tree))} :
          /\ tree' = Face(kind, Caught(t), tree)
          /\ other' = Members(kind, t, other.ref \ {e}, other.calls + 1)
          /\ last' = Call("D.erase", e, t.st, None, "none")
    /\ hist' = "mixed"
    /\ UNCHANGED <<runner, thread, kind, ref, cur>>

OtherClear ==
    /\ Running
    /\ Budget
    /\ ~cur.has
    /\ other.has
    /\ HasRoom(kind, tree)
    /\ \E rnd \in CtorRnd(kind) :
         \E t \in {clear(kind, Face(kind, tree, other), rnd, Owned(kind, tree))} :
            /\ tree' = Face(kind, Caught(t), tree)
            /\ other' = Members(kind, t, {}, other.calls + 1)
            /\ last' = Call("D.clear", None, t.st, None, "none")
    /\ hist' = "mixed"
    /\ UNCHANGED <<runner, thread, kind, ref, cur>>

NextCopy ==
    \/ \E e \in Key : Insert(e)
    \/ \E e \in Key : Erase(e)
    \/ Clear
    \/ CopyConstruct
    \/ CopyAssign
    \/ MoveConstruct
    \/ MoveAssign
    \/ \E e \in Key : OtherInsert(e)
    \/ \E e \in Key : OtherErase(e)
    \/ OtherClear

SpecCopy == Init /\ [][NextCopy]_vars

\* ------------------------------------------------------------------------
\* Calls made while the caller holds a cursor
\* ------------------------------------------------------------------------
\* insert(e) and erase(e) of a value other than the one under the cursor the
\* caller holds; the cursor keeps its node alive and is not touched.
InsertHeld(e) ==
    /\ Running
    /\ cur.has
    /\ cur.held < MaxHeld
    /\ e # Under(kind, tree, cur.it)
    /\ HasRoom(kind, tree)
    /\ tree.size_ < SizeCap
    /\ \E rnd \in InsertRnd(kind) :
         \E t \in {insert(kind, tree, e, rnd, Held)} :
            /\ tree' = Caught(t)
            /\ last' = Call("insert", e, t.st, None, "none")
    /\ ref' = ref \cup {e}
    /\ hist' = "mixed"
    /\ cur' = [cur EXCEPT !.held = @ + 1]
    /\ UNCHANGED <<runner, thread, kind, other>>

EraseHeld(e) ==
    /\ Running
    /\ cur.has
    /\ cur.held < MaxHeld
    /\ e # Under(kind, tree, cur.it)
    /\ \E t \in {erase(kind, tree, e, Held)} :
          /\ tree' = Caught(t)
          /\ last' = Call("erase", e, t.st, None, "none")
    /\ ref' = ref \ {e}
    /\ hist' = "mixed"
    /\ cur' = [cur EXCEPT !.held = @ + 1]
    /\ UNCHANGED <<runner, thread, kind, other>>

NextCursor ==
    \/ \E e \in Key : Insert(e)
    \/ \E e \in Key : Erase(e)
    \/ \E e \in Key : Find(e)
    \/ \E e \in Key : InsertHeld(e)
    \/ \E e \in Key : EraseHeld(e)
    \/ PlusPlus
    \/ MinusMinus
    \/ Star
    \/ Drop

SpecCursor == Init /\ [][NextCursor]_vars

\* ------------------------------------------------------------------------
\* The end of the set's life
\* ------------------------------------------------------------------------
\* The members of a set are destroyed after the body of its destructor.
NoMembers(k, t) ==
    IF Bad(t) THEN t
    ELSE IF k = "Skip"
    THEN [t EXCEPT !.head_top = Nil, !.end_top = Nil, !.head_bot = Nil, !.end_bot = Nil,
                   !.size_ = 0]
    ELSE [t EXCEPT !.root_ = Nil, !.begin_ = Nil, !.end_ = Nil, !.size_ = 0]

\* ~AVLTree, ~RBTree, ~SkipList: the members are set to nullptr.
AVLDestroy(t) == NoMembers("AVL", t)
RBDestroy(t) == NoMembers("RB", t)
SkipDestroy(t) == NoMembers("Skip", t)
\* ~SplayTree: the breadth-first walk from root_ that Clear makes, which
\* empties left_ and right_ of every node it visits.
SplayDestroy(t) ==
    LET seen == Reach(t, {t.root_})
        a(h) == [h EXCEPT !.left_ = [n \in Ptr |-> IF n \in seen THEN Nil ELSE @[n]],
                          !.right_ = [n \in Ptr |-> IF n \in seen THEN Nil ELSE @[n]]]
    IN IF Bad(t) THEN t ELSE IF t.root_ = Nil THEN Crash(t) ELSE NoMembers("Splay", a(t))
\* ~CartesianTree: a new sentinel takes the place of the tree.
TreapDestroy(t, rnd) == NoMembers("Treap", Sentinel(t, rnd))

\* The destructor of the set, the destructors of its members and of every
\* node that nothing owns any more.
destroy(k, t, rnd, held) ==
    CASE k = "AVL" -> Release(AVLDestroy(t), held)
      [] k = "RB" -> Release(RBDestroy(t), held)
      [] k = "Splay" -> Release(SplayDestroy(t), held)
      [] k = "Treap" -> Release(TreapDestroy(t, rnd), held)
      [] k = "Skip" -> SkipRelease(SkipDestroy(t), held)

\* The set goes out of scope.
Destroy ==
    /\ Running
    /\ ~cur.has
    /\ HasRoom(kind, tree)
    /\ \E rnd \in CtorRnd(kind) :
         \E t \in {destroy(kind, tree, rnd, Held)} :
            /\ tree' = t
            /\ last' = Call("destroy", None, t.st, None, "none")
    /\ hist' = IF ref = {} THEN "mixed" ELSE "cleared"
    /\ UNCHANGED <<runner, thread, kind, ref, cur, other>>

\* ------------------------------------------------------------------------
\* The contract of the set, stated against the reference set
\* ------------------------------------------------------------------------
Min(S) == CHOOSE x \in S : \A y \in S : x <= y
Max(S) == CHOOSE x \in S : \A y \in S : y <= x
\* The elements of a set of keys in ascending order.
RECURSIVE Ascending(_)
Ascending(S) == IF S = {} THEN <<>> ELSE <<Min(S)>> \o Ascending(S \ {Min(S)})

\* The cursor the last call returned is equal to end().
AtEnd == IsEqual(kind, tree, cur.it, end(kind, tree))

\* C1: in every variant, after any sequence of insert, erase and clear
\* calls, the walk from begin() by ++ ends at end() after exactly size()
\* cursors, and the values seen are the elements of the reference set in
\* strictly ascending order.
C1_TraversalIsReference ==
    Running =>
        LET w == Traversal(kind, tree)
        IN /\ w.st = "ok"
           /\ w.seq = Ascending(ref)
           /\ Len(w.seq) = size(kind, tree)

\* C2: in every variant, find(e) of an element e that was inserted and not
\* erased since returns a cursor that is not end() and dereferences to e.
C2_FindPresent ==
    (last.op = "find" /\ last.arg \in ref) =>
        /\ last.st = "ok"
        /\ ~AtEnd
        /\ last.val = last.arg

\* C3: in every variant, find(e) of an element e that is not in the set
\* (never inserted, or erased after its last insert) returns end().
C3_FindAbsent ==
    (last.op = "find" /\ last.arg \notin ref) =>
        /\ last.st = "ok"
        /\ AtEnd

\* C4: in every variant and every reachable state, lower_bound(e) returns a
\* cursor to the smallest stored element not less than e, and a cursor equal
\* to end() when there is none.
C4_LowerBound ==
    last.op = "lower_bound" =>
        /\ last.st = "ok"
        /\ LET ge == {x \in ref : x >= last.arg}
           IN IF ge = {} THEN AtEnd ELSE ~AtEnd /\ last.val = Min(ge)

\* C5: in every variant, insert(e) on a set that contains e changes nothing
\* an observer sees: size() is the same and the walk from begin() gives the
\* same ascending sequence and still ends at end().
C5_InsertPresentIsNoOp ==
    [][(last'.op = "insert" /\ last'.arg \in ref) =>
          /\ last'.st = "ok"
          /\ size(kind', tree') = size(kind, tree)
          /\ Traversal(kind', tree').st = "ok"
          /\ Traversal(kind', tree').seq = Ascending(ref)]_vars

\* C6: in every variant, erase(e) of an element that is not in the set (the
\* empty set included) signals no error and leaves size() and the sequence
\* of the walk from begin() to end() as they were.
C6_EraseAbsentIsNoOp ==
    [][(last'.op = "erase" /\ last'.arg \notin ref) =>
          /\ last'.st = "ok"
          /\ size(kind', tree') = size(kind, tree)
          /\ Traversal(kind', tree') = Traversal(kind, tree)]_vars

\* C7: in every variant, inserting a sequence of elements into a new set and
\* then erasing each distinct one of them, in any order, leaves the set
\* empty: size() = 0 and begin() = end().
C7_InsertAllEraseAll ==
    (hist = "era" /\ ref = {}) =>
        /\ last.st = "ok"
        /\ size(kind, tree) = 0
        /\ IsEqual(kind, tree, begin(kind, tree), end(kind, tree))

\* C8: in every variant, after every public operation, begin() dereferences
\* to the minimum stored element when the set is not empty and is equal to
\* end() when it is empty.
C8_BeginIsMinimum ==
    Running =>
        IF ref = {} THEN IsEqual(kind, tree, begin(kind, tree), end(kind, tree))
        ELSE Dereferencing(kind, tree, begin(kind, tree)) = [v |-> Min(ref), st |-> "ok"]

\* C9: in every variant and every reachable state, -- on a cursor that is
\* not equal to begin() moves it to the in-order predecessor of its
\* position; from end() on a non-empty set it moves to the maximum.
C9_DecrementIsPredecessor ==
    LET before == IF last.edge = "end" THEN ref ELSE {x \in ref : x < last.arg}
    IN (/\ last.op = "--"
        /\ last.edge \in {"none", "end"}
        /\ last.edge = "end" \/ last.arg \in ref
        /\ before # {}) =>
           /\ last.st = "ok"
           /\ last.val = Max(before)

\* C10: in every variant and every reachable state, whatever the shape of
\* the tree, -- on a cursor equal to begin() signals an error and gives no
\* cursor to another element.
C10_DecrementBeginThrows ==
    (last.op = "--" /\ last.edge \in {"begin", "both"}) => last.st = "throw"

\* C11: in every variant and every reachable state, ++ on a cursor equal to
\* end() signals an error and leaves the cursor equal to end(), and
\* operator* and operator-> on a cursor equal to end() signal an error.
C11_EndThrows ==
    /\ (last.op = "++" /\ last.edge \in {"end", "both"}) =>
           (last.st = "throw" /\ AtEnd)
    /\ (last.op \in {"*", "->"} /\ cur.has /\ AtEnd) => last.st = "throw"
\* ++ was called on end() of a set that holds elements.
C11_IncrementAtEnd ==
    last.op = "++" /\ last.edge = "end" /\ last.st = "throw" /\ ref # {}
\* What the operations of a set read of an empty set: the sentinel the
\* members refer to and its links, with the identity of its cell left out.
TreeView(t) ==
    [one |-> t.begin_ = t.root_ /\ t.end_ = t.root_ /\ t.root_ \in t.alive,
     left |-> t.left_[t.root_], right |-> t.right_[t.root_],
     parent |-> t.parent_[t.root_], value |-> t.value_[t.root_],
     aux |-> t.aux_[t.root_], size |-> t.size_, st |-> t.st]
SkipView(t) ==
    [one |-> /\ t.head_top = t.head_bot /\ t.end_top = t.end_bot
             /\ {t.head_bot, t.end_bot} \subseteq t.alive
             /\ t.right_[t.head_bot] = t.end_bot /\ t.left_[t.end_bot] = t.head_bot,
     left |-> t.left_[t.head_bot], right |-> t.right_[t.end_bot],
     down |-> <<t.down_[t.head_bot], t.down_[t.end_bot]>>,
     value |-> <<t.value_[t.head_bot], t.value_[t.end_bot]>>,
     size |-> t.size_, st |-> t.st]
View(k, t) == IF k = "Skip" THEN SkipView(t) ELSE TreeView(t)

\* C12: in every variant, clear() in any reachable state leaves size() = 0
\* and begin() = end(), and the object is then the one the constructor
\* builds (up to which cell its sentinel is), so that every later sequence
\* of insert, erase, find and lower_bound goes as on a new set.
C12_ClearIsFresh ==
    last.op = "clear" =>
        /\ last.st = "ok"
        /\ size(kind, tree) = 0
        /\ IsEqual(kind, tree, begin(kind, tree), end(kind, tree))
        /\ \E rnd \in CtorRnd(kind) : View(kind, tree) = View(kind, MakeTree(kind, rnd))
\* clear() was called on a set that held elements.
C12_ClearedNonEmpty ==
    last.op = "clear" /\ last.st = "ok" /\ hist = "cleared" /\ tree.size_ = 0

\* The walk of the second set D from begin() to end().
OtherTraversal(k, t, o) == Traversal(k, Face(k, t, o))

\* C13: in every variant, the copy constructor and the copy assignment
\* return with D walking the values S walks (S as it was) and size() equal,
\* and afterwards an insert, erase or clear of S leaves the walk and the
\* size of D as they were, and one of D leaves those of S as they were.
C13_CopyIndependent ==
    [][/\ last'.op \in {"copy", "copy="} =>
            /\ last'.st = "ok"
            /\ other'.has
            /\ OtherTraversal(kind, tree', other') = Traversal(kind, tree)
            /\ other'.size_ = size(kind, tree)
            /\ Traversal(kind, tree') = Traversal(kind, tree)
            /\ size(kind, tree') = size(kind, tree)
       /\ (other.has /\ last'.op \in {"insert", "erase", "clear"}) =>
            /\ other'.has
            /\ OtherTraversal(kind, tree', other') = OtherTraversal(kind, tree, other)
            /\ other'.size_ = other.size_
       /\ last'.op \in {"D.insert", "D.erase", "D.clear"} =>
            /\ Traversal(kind, tree') = Traversal(kind, tree)
            /\ size(kind, tree') = size(kind, tree)]_vars

\* C14: in every variant, the move constructor and the move assignment
\* D from O return with D walking the values O walked before and size()
\* equal to O's size before, and with O empty: O.size() = 0 and
\* O.begin() = O.end().
C14_MoveLeavesEmpty ==
    [][last'.op \in {"move", "move="} =>
          /\ last'.st = "ok"
          /\ OtherTraversal(kind, tree', other') = Traversal(kind, tree)
          /\ other'.size_ = size(kind, tree)
          /\ size(kind, tree') = 0
          /\ IsEqual(kind, tree', begin(kind, tree'), end(kind, tree'))]_vars

\* The cursor the caller holds is at the element x of the reference set.
CursorAt(x) ==
    /\ cur.has
    /\ x \in ref
    /\ Dereferencing(kind, tree, cur.it) = [v |-> x, st |-> "ok"]
\* The cursor it is at the element y of the set t, or at end() when y is None.
Lands(k, t, r, y) ==
    /\ r.st = "ok"
    /\ IF y = None THEN IsEqual(k, t, r.it, end(k, t))
       ELSE Dereferencing(k, t, r.it) = [v |-> y, st |-> "ok"]

\* C15: in the AVL, red-black, treap and skip-list variants, a cursor at the
\* element x is still at x after an insert or an erase of a value other than
\* x: it dereferences to x, ++ gives the cursor at the successor of x in the
\* set (end() when x is the maximum), and -- gives the cursor at the
\* predecessor of x when x has one.
C15_CursorSurvives ==
    [][\A x \in Key :
         (/\ kind \in {"AVL", "RB", "Treap", "Skip"}
          /\ CursorAt(x)
          /\ last'.op \in {"insert", "erase"}) =>
            LET above == {y \in ref' : y > x}
                below == {y \in ref' : y < x}
            IN /\ last'.st = "ok"
               /\ cur'.it = cur.it
               /\ Dereferencing(kind, tree', cur.it) = [v |-> x, st |-> "ok"]
               /\ Lands(kind, tree', Increment(kind, tree', cur.it),
                        IF above = {} THEN None ELSE Min(above))
               /\ below # {} =>
                    Lands(kind, tree', Decrement(kind, tree', cur.it), Max(below))]_vars

\* C16: in every variant, a find(e) or lower_bound(e) call leaves size() and
\* the walk from begin() to end() as they were before the call, for every e
\* (the lookups of the splay tree restructure the tree).
C16_LookupKeepsContents ==
    [][last'.op \in {"find", "lower_bound"} =>
          /\ size(kind, tree') = size(kind, tree)
          /\ Traversal(kind, tree') = Traversal(kind, tree)]_vars
\* A find(e) of the splay tree has brought the node of e to the root of a
\* tree of three elements.
C16_SplayedToRoot ==
    /\ kind = "Splay"
    /\ last.op = "find"
    /\ last.st = "ok"
    /\ last.val = last.arg
    /\ cur.it = tree.root_
    /\ tree.value_[tree.root_] = last.arg
    /\ tree.size_ = MaxKey

\* The nodes of the heap that hold an element (the sentinels hold none).
Elements(k, t) ==
    IF k = "Skip" THEN {n \in t.alive : t.value_[n].info = "v"}
    ELSE {n \in t.alive : t.value_[n] # None}

\* C17: in every variant, after clear() and after the destruction of the
\* set, with no cursor and no other set left, the call has returned and no
\* node that holds an element is alive: none is kept by a cycle of owning
\* links.
C17_NoElementLeft ==
    last.op \in {"clear", "destroy"} =>
        /\ last.st = "ok"
        /\ Elements(kind, tree) = {}

\* The node of the AVL tree t that holds e has two children that hold
\* elements.
TwoChildren(t, e) ==
    LET f == AVLFind(t, e)
    IN /\ f.st = "ok"
       /\ f.it \notin {Nil, t.end_}
       /\ t.left_[f.it] # Nil
       /\ t.right_[f.it] \notin {Nil, t.end_}
\* The sequence s without the value e.
Without(s, e) == SelectSeq(s, LAMBDA v : v # e)

\* C18: an erase(e) on the AVL tree of a key whose node has two children
\* returns with the in-order successor of e in the place of the erased node
\* (at root_ when that node was the root, else in the same child link of
\* its parent), e no longer in the walk of the set and every other key of
\* the walk still in it.
C18_AVLEraseTwoChildren ==
    [][(kind = "AVL" /\ last'.op = "erase" /\ TwoChildren(tree, last'.arg)) =>
          LET n == AVLFind(tree, last'.arg).it
              up == tree.parent_[n]
              next == tree.value_[Leftmost(tree, tree.right_[n], Fuel)]
              there == IF up = Nil THEN tree'.root_
                       ELSE IF tree.left_[up] = n THEN tree'.left_[up]
                       ELSE tree'.right_[up]
          IN /\ last'.st = "ok"
             /\ there # Nil
             /\ tree'.value_[there] = next
             /\ Traversal(kind, tree').st = "ok"
             /\ Traversal(kind, tree').seq = Without(Traversal(kind, tree).seq, last'.arg)]_vars

\* ------------------------------------------------------------------------
\* The AVL tree alone, over one more key
\* ------------------------------------------------------------------------
\* AVLTree<int> set; then Insert and Erase of the keys 1..MaxWide, and the
\* end of the set's life.
InitAVL == Init /\ kind = "AVL"

NextAVL ==
    \/ \E e \in 1..MaxWide : Insert(e)
    \/ \E e \in 1..MaxWide : Erase(e)
    \/ Destroy

SpecAVL == InitAVL /\ [][NextAVL]_vars

\* ------------------------------------------------------------------------
\* The red-black tree alone, over one more key
\* ------------------------------------------------------------------------
\* RBTree<int> set; then Insert and Erase of the keys 1..MaxWide.
InitRB == Init /\ kind = "RB"

NextRB ==
    \/ \E e \in 1..MaxWide : Insert(e)
    \/ \E e \in 1..MaxWide : Erase(e)

SpecRB == InitRB /\ [][NextRB]_vars

\* ------------------------------------------------------------------------
\* The splay tree alone, over one more key
\* ------------------------------------------------------------------------
\* SplayTree<int> set; then Insert, Erase and Find of the keys 1..MaxWide,
\* the cursor that Find returns being dropped before the next mutation.
InitSplay == Init /\ kind = "Splay"

NextSplay ==
    \/ \E e \in 1..MaxWide : Insert(e)
    \/ \E e \in 1..MaxWide : Erase(e)
    \/ \E e \in 1..MaxWide : Find(e)
    \/ Drop

SpecSplay == InitSplay /\ [][NextSplay]_vars

\* The child c of a node of the AVL tree t, with the end sentinel ignored.
Child(t, c) == IF c = t.end_ THEN Nil ELSE c
\* The number of nodes on the longest path down from n, the sentinel not
\* counted.
RECURSIVE TrueHeight(_, _, _)
TrueHeight(t, n, k) ==
    IF n = Nil \/ k = 0 THEN 0
    ELSE 1 + Max({TrueHeight(t, Child(t, t.left_[n]), k - 1),
                  TrueHeight(t, Child(t, t.right_[n]), k - 1)})
\* The node n of the AVL tree t stores its height and is balanced.
Balanced(t, n) ==
    LET l == Child(t, t.left_[n])
        r == Child(t, t.right_[n])
    IN /\ t.aux_[n] = 1 + Max({AVLHeightOf(t, l), AVLHeightOf(t, r)})
       /\ TrueHeight(t, l, Fuel) - TrueHeight(t, r, Fuel) \in {-1, 0, 1}

\* C19: after every insert and every erase on the AVL tree, every node
\* under root_ that holds an element stores 1 + the larger of the heights
\* its children store (1 for a leaf), and the heights of its two subtrees
\* differ by at most 1; the end sentinel counts as no child.
C19_AVLBalanced ==
    (kind = "AVL" /\ last.op \in {"insert", "erase"}) =>
        \A n \in Reach(tree, {tree.root_}) : tree.value_[n] # None => Balanced(tree, n)

\* The nodes under root_ that hold the largest element of the tree t.
MaxNodes(t) ==
    LET V == {n \in Reach(t, {t.root_}) : t.value_[n] # None}
    IN {n \in V : \A m \in V : t.value_[m] <= t.value_[n]}

\* C20: after every operation on an AVL or red-black tree that returned, an
\* insert of a present element and an erase of an absent one included, the
\* end sentinel is the right child of the node with the largest element, the
\* sentinel's parent_ is that node, and ++ on a cursor at that node gives
\* end().
C20_SentinelLinked ==
    (kind \in {"AVL", "RB"} /\ last.st = "ok") =>
        \A m \in MaxNodes(tree) :
            /\ tree.right_[m] = tree.end_
            /\ tree.parent_[tree.end_] = m
            /\ Increment(kind, tree, m) = Cur(tree.end_, "ok")

\* C21: whenever an AVL or red-black set is empty, the case of an erase of
\* the last element included, root_ is the end sentinel and not null, and
\* find(e) and lower_bound(e) return end() without an error.
C21_EmptyRootIsSentinel ==
    (kind \in {"AVL", "RB"} /\ ref = {} /\ last.op # "destroy") =>
        /\ last.st = "ok" => (tree.root_ # Nil /\ tree.root_ = tree.end_)
        /\ last.op \in {"find", "lower_bound"} => (last.st = "ok" /\ cur.has /\ AtEnd)

\* The number of black nodes on every path from the node n of the red-black
\* tree t down to an absent child, Lost when two paths differ or the links
\* go round a cycle; the end sentinel counts as absent.
RECURSIVE BlackCount(_, _, _)
BlackCount(t, n, k) ==
    IF n = Nil THEN 0
    ELSE IF k = 0 THEN Lost
    ELSE LET l == BlackCount(t, Child(t, t.left_[n]), k - 1)
             r == BlackCount(t, Child(t, t.right_[n]), k - 1)
         IN IF l = Lost \/ r = Lost \/ l # r THEN Lost
            ELSE l + (IF IsRed(t, n) THEN 0 ELSE 1)
\* No red node under root_ has a red child.
NoRedRed(t) ==
    \A n \in Reach(t, {t.root_}) \ {t.end_} :
        IsRed(t, n) =>
            \A c \in {Child(t, t.left_[n]), Child(t, t.right_[n])} \ {Nil} : ~IsRed(t, c)
Coloured(t) == NoRedRed(t) /\ BlackCount(t, Child(t, t.root_), Fuel) # Lost
\* The elements under the node n in left-to-right order.
RECURSIVE InOrder(_, _, _)
InOrder(t, n, k) ==
    IF n = Nil \/ k = 0 THEN <<>>
    ELSE InOrder(t, Child(t, t.left_[n]), k - 1) \o <<t.value_[n]>>
         \o InOrder(t, Child(t, t.right_[n]), k - 1)
Keys(t) == InOrder(t, Child(t, t.root_), Fuel)

\* C22: an erase(e) on a red-black tree in which no red node has a red child
\* and every path from the root to an absent child has the same number of
\* black nodes returns and leaves a tree with the same two properties.
C22_RBEraseKeepsColours ==
    [][(kind = "RB" /\ last'.op = "erase" /\ Coloured(tree)) =>
          (last'.st = "ok" /\ Coloured(tree'))]_vars

\* C23: after any sequence of inserts into a new red-black tree, no red node
\* has a red child and every path from the root to an absent child has the
\* same number of black nodes.
C23_RBInsertKeepsColours ==
    (kind = "RB" /\ hist \in {"fresh", "ins"}) => (last.st = "ok" /\ Coloured(tree))
\* MaxWide inserts have been made and the insert of the last one recoloured
\* its parent and its uncle: both children of the root are black.
C23_UncleRecoloured ==
    /\ kind = "RB"
    /\ hist = "ins"
    /\ last.st = "ok"
    /\ tree.size_ = MaxWide
    /\ Len(Keys(tree)) = MaxWide
    /\ \A c \in {tree.left_[tree.root_], tree.right_[tree.root_]} : c # Nil /\ ~IsRed(tree, c)

\* C24: after every insert, the first one included, and after every erase
\* that leaves a red-black tree with elements, the root is black.
C24_RBRootBlack ==
    (kind = "RB" /\ last.op \in {"insert", "erase"} /\ last.st = "ok" /\ ref # {}) =>
        (tree.root_ # Nil /\ ~IsRed(tree, tree.root_))

\* C25: an erase(e) of an element of a red-black tree whose nodes under root_
\* hold the elements of the set in ascending order returns, and the nodes
\* under root_ then hold the other elements in ascending order, without e.
C25_RBEraseRemovesOne ==
    [][(kind = "RB" /\ last'.op = "erase" /\ last'.arg \in ref
            /\ Keys(tree) = Ascending(ref)) =>
          (last'.st = "ok" /\ Keys(tree') = Ascending(ref \ {last'.arg}))]_vars

\* What find(e) and lower_bound(e) give on the set t of variant k: the value
\* under the cursor returned, End for a cursor equal to end(), and how the
\* call ended.
Found(k, r) ==
    [st |-> r.st,
     at |-> IF r.st # "ok" THEN "none"
            ELSE IF IsEqual(k, r.t, r.it, end(k, r.t)) THEN "end" ELSE "node",
     val |-> IF r.st = "ok" THEN Under(k, r.t, r.it) ELSE None]
\* The same for the reference set S: a cursor at x, or end().
RefAt(S) == IF S = {} THEN [st |-> "ok", at |-> "end", val |-> None]
            ELSE [st |-> "ok", at |-> "node", val |-> Min(S)]
\* The set t of variant k is, to its caller, the reference set S.
Agrees(k, t, S) ==
    /\ size(k, t) = Cardinality(S)
    /\ Traversal(k, t) = [seq |-> Ascending(S), st |-> "ok"]
    /\ \A e \in Key :
          /\ Found(k, find(k, t, e)) = RefAt(S \cap {e})
          /\ Found(k, lower_bound(k, t, e)) = RefAt({x \in S : x >= e})

\* C26: whatever priorities the treap's nodes and its sentinel drew, equal
\* ones included, after any sequence of insert and erase calls size(), the
\* walk from begin() to end(), find(e) and lower_bound(e) are those of the
\* reference set.
C26_TreapIsReference ==
    (kind = "Treap" /\ last.op \in {"new", "insert", "erase"}) =>
        (last.st = "ok" /\ Agrees(kind, tree, ref))
\* An element has been erased from a treap in which a node and its child,
\* both holding elements, have drawn the same priority.
C26_ErasedWithEqualPriorities ==
    /\ kind = "Treap"
    /\ hist = "era"
    /\ last.st = "ok"
    /\ \E n \in tree.alive : \E c \in {tree.left_[n], tree.right_[n]} \ {Nil} :
          /\ tree.value_[n] # None
          /\ tree.value_[c] # None
          /\ tree.aux_[c] = tree.aux_[n]

\* The values of the nodes under n in left-to-right order, the sentinel's
\* empty value included: in the treap the sentinel is a node like any other.
RECURSIVE InOrderAll(_, _, _)
InOrderAll(t, n, k) ==
    IF n = Nil \/ k = 0 THEN <<>>
    ELSE InOrderAll(t, t.left_[n], k - 1) \o <<t.value_[n]>>
         \o InOrderAll(t, t.right_[n], k - 1)
\* No node under root_ has a child of smaller priority.
HeapOrdered(t) ==
    \A n \in Reach(t, {t.root_}) :
        \A c \in {t.left_[n], t.right_[n]} \ {Nil} : t.aux_[n] <= t.aux_[c]

\* C27: after every insert, of a present element included, and every erase
\* on a treap, the priority of every node is at most the priority of each
\* of its children, and the nodes hold the elements in ascending order from
\* left to right, the sentinel last.
C27_TreapHeapOrder ==
    (kind = "Treap" /\ last.op \in {"insert", "erase"}) =>
        /\ last.st = "ok"
        /\ HeapOrdered(tree)
        /\ InOrderAll(tree, tree.root_, Fuel) = Ascending(ref) \o <<None>>
\* Inserts have filled a treap with MaxKey elements; its root is not the
\* sentinel and some node has two children.
C27_TreapFilled ==
    /\ kind = "Treap"
    /\ last.op = "insert"
    /\ last.st = "ok"
    /\ tree.size_ = MaxKey
    /\ Cardinality(ref) = MaxKey
    /\ hist = "ins"
    /\ tree.root_ # tree.end_
    /\ Cardinality(tree.alive) = MaxKey + 1
    /\ \E n \in tree.alive : tree.left_[n] # Nil /\ tree.right_[n] # Nil

\* The value of the node a call on the splay tree t with the key e gets at:
\* e when e is in the tree or is being inserted, else the value of the node
\* at which the descent from the root stops (None for the sentinel).
Accessed(t, op, e) ==
    LET d == SplayDescend(t, t.root_, e, Fuel)
    IN IF d.at = "eq" \/ op = "insert" THEN e ELSE t.value_[d.n]

\* C28: every insert(e), find(e) and lower_bound(e), and every erase(e) of
\* an element that is not in the set, on a splay tree returns with the
\* accessed node at the root: the node of e when e is in the tree or was
\* inserted, else the last node the descent visited.
C28_SplayAccessedAtRoot ==
    [][(kind = "Splay"
          /\ (last'.op \in {"insert", "find", "lower_bound"}
                \/ (last'.op = "erase" /\ last'.arg \notin ref))) =>
          /\ last'.st = "ok"
          /\ tree'.root_ # Nil
          /\ tree'.value_[tree'.root_] = Accessed(tree, last'.op, last'.arg)]_vars

\* The nodes under root_ form one search tree over the elements S with the
\* sentinel last: each node is the parent of its children, root_ has no
\* parent, begin_ is the leftmost node and end_ the rightmost one.
OneTree(t, S) ==
    /\ t.root_ # Nil /\ t.parent_[t.root_] = Nil
    /\ InOrderAll(t, t.root_, Fuel) = Ascending(S) \o <<None>>
    /\ \A n \in Reach(t, {t.root_}) :
           \A c \in {t.left_[n], t.right_[n]} \ {Nil} : t.parent_[c] = n
    /\ t.begin_ = Leftmost(t, t.root_, Fuel)
    /\ t.end_ = Rightmost(t, t.root_, Fuel)

\* C29: erase(e) of an element e of a splay tree leaves one search tree
\* that holds exactly the other elements, each once, with begin_ at its
\* leftmost node and the end sentinel at its rightmost node.
C29_SplayEraseJoins ==
    [][(kind = "Splay" /\ last'.op = "erase" /\ last'.arg \in ref
          /\ OneTree(tree, ref)) =>
          /\ last'.st = "ok"
          /\ tree'.size_ = Cardinality(ref) - 1
          /\ OneTree(tree', ref \ {last'.arg})]_vars

\* A splay tree from which 2 was erased while 1 was its left subtree and 3
\* the left child of its right subtree: the join hung 1 under the new root
\* and moved 3 under 1.
C29_JoinedBothSides ==
    /\ kind = "Splay" /\ last.op = "erase" /\ last.arg = 2 /\ last.st = "ok"
    /\ ref = {1, 3} /\ tree.size_ = 2 /\ ~cur.has
    /\ tree.root_ = tree.end_
    /\ tree.left_[tree.root_] # Nil
    /\ tree.value_[tree.left_[tree.root_]] = 1
    /\ tree.right_[tree.left_[tree.root_]] # Nil
    /\ tree.value_[tree.right_[tree.left_[tree.root_]]] = 3

\* C30: whatever the promotion coin flips gave, after any sequence of
\* insert and erase calls on a skip list size(), the walk from begin() to
\* end() on the bottom level, find(e) and lower_bound(e) are those of the
\* reference set.
C30_SkipIsReference ==
    (kind = "Skip" /\ last.op \in {"new", "insert", "erase"}) =>
        (last.st = "ok" /\ Agrees(kind, tree, ref))

\* The set of the members of a sequence.
Range(s) == {s[i] : i \in 1..Len(s)}
\* The cells from n along right_, and from n along down_.
RECURSIVE SkipRow(_, _, _)
SkipRow(t, n, k) ==
    IF n = Nil \/ k = 0 THEN <<>> ELSE <<n>> \o SkipRow(t, t.right_[n], k - 1)
RECURSIVE SkipTower(_, _, _)
SkipTower(t, n, k) ==
    IF n = Nil \/ k = 0 THEN <<>> ELSE <<n>> \o SkipTower(t, t.down_[n], k - 1)
\* The row from the head h to the end e: a head cell, value cells with
\* strictly ascending values, an end cell, and no other cell.
RowOrdered(t, h, e) ==
    LET row == SkipRow(t, h, SkipFuel)
    IN /\ Len(row) >= 2 /\ Len(row) < SkipFuel
       /\ row[Len(row)] = e
       /\ t.value_[h].info = "b" /\ t.value_[e].info = "e"
       /\ \A j \in 2..(Len(row) - 1) : t.value_[row[j]].info = "v"
       /\ \A j \in 2..(Len(row) - 2) :
              t.value_[row[j]].value < t.value_[row[j + 1]].value
\* Every cell of the row from h has under it a cell of the row from g that
\* holds the same value.
RowAbove(t, h, g) ==
    LET below == SkipRow(t, g, SkipFuel)
    IN \A n \in Range(SkipRow(t, h, SkipFuel)) :
           /\ t.down_[n] \in Range(below)
           /\ t.value_[t.down_[n]] = t.value_[n]
\* The levels of the skip list t that holds the elements S.
Towers(t, S) ==
    LET heads == SkipTower(t, t.head_top, SkipFuel)
        ends == SkipTower(t, t.end_top, SkipFuel)
        bottom == SkipRow(t, t.head_bot, SkipFuel)
    IN /\ Len(heads) >= 1 /\ Len(heads) < SkipFuel /\ Len(ends) = Len(heads)
       /\ heads[Len(heads)] = t.head_bot /\ ends[Len(ends)] = t.end_bot
       /\ \A i \in 1..Len(heads) : RowOrdered(t, heads[i], ends[i])
       /\ \A i \in 1..(Len(heads) - 1) : RowAbove(t, heads[i], heads[i + 1])
       /\ \A n \in Range(bottom) : t.down_[n] = Nil
       /\ [j \in 1..(Len(bottom) - 2) |-> t.value_[bottom[j + 1]].value] = Ascending(S)

SkipCells(t) ==
    UNION {Range(SkipRow(t, h, SkipFuel)) : h \in Range(SkipTower(t, t.head_top, SkipFuel))}

\* C32: after every insert and every erase on a skip list that returns,
\* on every level the left_ link of the right neighbour of a cell refers to
\* that cell.
C32_SkipLeftLinks ==
    (kind = "Skip" /\ last.op \in {"new", "insert", "erase"} /\ last.st = "ok") =>
        \A x \in SkipCells(tree) :
            tree.right_[x] # Nil => tree.left_[tree.right_[x]] = x

\* C33: after every erase on a skip list that returns, the top level holds
\* a value cell unless it is the only level: no level of the two sentinels
\* alone is left above another level.
C33_SkipTopLevelShrinks ==
    (kind = "Skip" /\ last.op = "erase" /\ last.st = "ok") =>
        \/ tree.head_top = tree.head_bot
        \/ /\ tree.right_[tree.head_top] # Nil
           /\ tree.value_[tree.right_[tree.head_top]].info = "v"

\* Every node under root_ is the parent of its children, and root_ has no
\* parent.
ParentLinks(t) ==
    t.root_ # Nil =>
        /\ t.parent_[t.root_] = Nil
        /\ \A p \in Reach(t, {t.root_}) :
               \A c \in {t.left_[p], t.right_[p]} \ {Nil} : t.parent_[c] = p

\* C34: after every call on an AVL tree, a red-black tree, a treap or a
\* splay tree that returns or throws, the parent link of every left or
\* right child refers to the node it is a child of, and the root has no
\* parent link.
C34_ParentLinks ==
    (kind \in {"AVL", "RB", "Treap", "Splay"} /\ last.st \in {"ok", "throw"}) =>
        ParentLinks(tree)

\* C35: in every variant, when ++ or -- on a cursor throws the out-of-range
\* error the cursor compares equal to what it was before the call.
C35_FailedStepKeepsCursor ==
    [][(last'.op \in {"++", "--"} /\ last'.st = "throw") =>
          (cur'.has /\ IsEqual(kind, tree', cur'.it, cur.it))]_vars

\* ------------------------------------------------------------------------
\* The benchmark program  (src/benchmarks/bench_framework.cpp)
\* ------------------------------------------------------------------------
\* types_: RunBench measures the benchmark on one tree type after the
\* other, in the order of the map.
Types == <<"AVL_tree", "Cartesian_tree", "Red-Black_tree", "Skip_list",
           "Splay_tree", "Stdlib_set">>
\* while (... && threads.size() < 3)
FillTo == 3
\* A RunBench thread is at a tree type, at its last line (the report it
\* prints under stdout_mutex_), or has returned.
Measuring(b) == \E i \in 1..Len(Types) : thread[b] = Types[i]
AfterType(p) ==
    LET i == CHOOSE j \in 1..Len(Types) : Types[j] = p
    IN IF i < Len(Types) THEN Types[i + 1] ELSE "report"
\* stdout_mutex_ is free: no thread is inside its lock_guard.
StdoutFree == \A b \in Bench : thread[b] # "report"

\* The mutable objects with static storage duration that a benchmark on a
\* tree type reads and writes outside its own set instance and its own
\* generator: `static Random rand` of CartesianTree<T>::Random::Next and of
\* SkipList<T>::Random::Next, whose gen_ every Next() advances.
Statics(p) ==
    CASE p = "Cartesian_tree" -> {"CartesianTree::Random::rand"}
      [] p = "Skip_list" -> {"SkipList::Random::rand"}
      [] OTHER -> {}

\* RunBenchmarks(path, range, bench_predicate): the predicate accepts the
\* benchmarks of `accepts`; it = benchmarks_.begin().
InitBench ==
    /\ kind = "Treap"
    /\ tree = MakeTree("Treap", 1)
    /\ ref = {}
    /\ cur = NoCursor
    /\ last = Call("new", None, "ok", None, "none")
    /\ hist = "fresh"
    /\ other = NoOther
    /\ \E accepts \in SUBSET Bench :
          runner = [pc |-> "fill", it |-> 1, threads |-> <<>>, accepts |-> accepts]
    /\ thread = [b \in Bench |-> "none"]

Sets == <<kind, tree, ref, cur, last, hist, other>>

\* stdout_mutex_.lock(); cout << ...; stdout_mutex_.unlock();
\* threads.emplace(RunBench, ...); ++it;
Emplace(pc) ==
    /\ StdoutFree
    /\ runner' = [runner EXCEPT !.pc = pc, !.it = @ + 1,
                                !.threads = Append(@, runner.it)]
    /\ thread' = [thread EXCEPT ![runner.it] = Types[1]]

\* while (it != benchmarks_.end() && threads.size() < 3)
FillTest ==
    /\ runner.pc = "fill"
    /\ runner' = [runner EXCEPT !.pc = IF runner.it <= MaxBench
                                          /\ Len(runner.threads) < FillTo
                                       THEN "fill_if" ELSE "feed"]
    /\ UNCHANGED <<Sets, thread>>

\* if (bench_predicate(it->first)) { ...; ++it; }  -- it stays when the
\* predicate rejects the benchmark.
FillIf ==
    /\ runner.pc = "fill_if"
    /\ IF runner.it \in runner.accepts THEN Emplace("fill")
       ELSE runner' = [runner EXCEPT !.pc = "fill"] /\ UNCHANGED thread
    /\ UNCHANGED Sets

\* while (it != benchmarks_.end())
FeedTest ==
    /\ runner.pc = "feed"
    /\ runner' = [runner EXCEPT !.pc = IF runner.it <= MaxBench
                                       THEN "feed_if" ELSE "drain"]
    /\ UNCHANGED <<Sets, thread>>

\* if (bench_predicate(it->first)) { ...; ++it; threads.front().join(); ... }
FeedIf ==
    /\ runner.pc = "feed_if"
    /\ IF runner.it \in runner.accepts THEN Emplace("feed_join")
       ELSE runner' = [runner EXCEPT !.pc = "feed"] /\ UNCHANGED thread
    /\ UNCHANGED Sets

\* threads.front().join(); threads.pop();
Join(pc) ==
    /\ runner.threads # <<>>
    /\ thread[Head(runner.threads)] = "finished"
    /\ runner' = [runner EXCEPT !.pc = pc, !.threads = Tail(@)]
    /\ thread' = [thread EXCEPT ![Head(runner.threads)] = "joined"]

FeedJoin ==
    /\ runner.pc = "feed_join"
    /\ Join("feed")
    /\ UNCHANGED Sets

\* while (!threads.empty()) { threads.front().join(); threads.pop(); }
Drain ==
    /\ runner.pc = "drain"
    /\ IF runner.threads = <<>>
       THEN runner' = [runner EXCEPT !.pc = "done"] /\ UNCHANGED thread
       ELSE Join("drain")
    /\ UNCHANGED Sets

\* RunBench on the thread of benchmark b: the next tree type, then the
\* report under stdout_mutex_, then the return.
RunBench(b) ==
    /\ \/ /\ Measuring(b)
          /\ AfterType(thread[b]) = "report" => StdoutFree
          /\ thread' = [thread EXCEPT ![b] = AfterType(thread[b])]
       \/ /\ thread[b] = "report"
          /\ thread' = [thread EXCEPT ![b] = "finished"]
    /\ UNCHANGED <<Sets, runner>>

RunBenchmarks == FillTest \/ FillIf \/ FeedTest \/ FeedIf \/ FeedJoin \/ Drain

NextBench ==
    \/ FillTest
    \/ FillIf
    \/ FeedTest
    \/ FeedIf
    \/ FeedJoin
    \/ Drain
    \/ \E b \in Bench : RunBench(b)

SpecBench == InitBench /\ [][NextBench]_vars

\* The scheduler runs the calling thread and every RunBench thread that can
\* take a step.
SpecBenchFair ==
    /\ InitBench
    /\ [][NextBench]_vars
    /\ WF_vars(RunBenchmarks)
    /\ \A b \in Bench : WF_vars(RunBench(b))

\* C36: two RunBench threads, each on the set instances it made itself,
\* never measure at the same time two tree types that read and write the
\* same mutable object outside those instances.
C36_ThreadsShareNothing ==
    \A a, b \in Bench :
        (a # b /\ Measuring(a) /\ Measuring(b)) =>
            Statics(thread[a]) \cap Statics(thread[b]) = {}

\* The benchmarks RunBenchmarks has started a thread for.
Started == {b \in Bench : thread[b] # "none"}

\* C37: for every predicate RunBenchmarks returns, and when it has
\* returned it has started one thread for each benchmark the predicate
\* accepts, none for the others, and has joined every thread it started.
C37_RunBenchmarksReturns ==
    /\ <>(runner.pc = "done")
    /\ [](runner.pc = "done" =>
            /\ Started = runner.accepts
            /\ runner.threads = <<>>
            /\ \A b \in Started : thread[b] = "joined")

\* C38: the calling thread and the RunBench threads that were started and
\* are not joined yet are never more than 4.
C38_AtMostFourThreads == 1 + Len(runner.threads) <= 4

\* ------------------------------------------------------------------------
\* Split of the treap
\* ------------------------------------------------------------------------
\* The node at which InsertRec, descending from `from` with a new node of
\* this value and priority, calls Split; Nil when it calls it nowhere.
RECURSIVE SplitCall(_, _, _, _, _)
SplitCall(t, from, value, priority, k) ==
    IF k = 0 \/ from = Nil THEN Nil
    ELSE IF t.aux_[from] >= priority THEN from
    ELSE IF OptLess(value, t.value_[from])
    THEN SplitCall(t, t.left_[from], value, priority, k - 1)
    ELSE IF OptLess(t.value_[from], value)
    THEN SplitCall(t, t.right_[from], value, priority, k - 1)
    ELSE Nil
SplitCalls(t, value) ==
    {SplitCall(t, t.root_, value, p, Fuel) : p \in InsertRnd("Treap")} \ {Nil}

\* The values of a sequence ascend, the sentinel's empty value being the
\* largest.
Ascends(s) == \A i \in 1..(Len(s) - 1) : OptLess(s[i], s[i + 1])
\* The part under n of a split heap keeps BST order, heap order and the
\* parent links; a part split off its old parent has no parent.
PartOk(t, n, from) ==
    n # Nil =>
        /\ Ascends(InOrderAll(t, n, Fuel))
        /\ \A p \in Reach(t, {n}) :
              \A c \in {t.left_[p], t.right_[p]} \ {Nil} :
                  t.aux_[p] <= t.aux_[c] /\ t.parent_[c] = p
        /\ n # from => t.parent_[n] = Nil
PartValues(t, n) == IF n = Nil THEN {} ELSE {t.value_[m] : m \in Reach(t, {n})}
PartsOk(t, s, from) ==
    /\ s.t.st = "ok"
    /\ PartOk(s.t, s.left_sub, from)
    /\ PartOk(s.t, s.right_sub, from)
    /\ PartValues(s.t, s.left_sub) \cup PartValues(s.t, s.right_sub)
          = PartValues(t, from)

\* C39: every Split(root, k) an insert(k) on a treap makes gives L with all
\* keys < k and R with all keys >= k, both in BST order and heap order with
\* consistent parent links.
SplitBelowAndFrom(t, from, value) ==
    LET s == Split(t, from, value, Fuel)
    IN /\ PartsOk(t, s, from)
       /\ \A v \in PartValues(s.t, s.left_sub) : OptLess(v, value)
       /\ \A v \in PartValues(s.t, s.right_sub) : ~OptLess(v, value)
C39_SplitPartitions ==
    [][(kind = "Treap" /\ last'.op = "insert") =>
          \A from \in SplitCalls(tree, last'.arg) :
              SplitBelowAndFrom(tree, from, last'.arg)]_vars

\* C39 as amended: L holds the keys <= k (k itself when it is present) and R
\* the keys > k.
SplitUpToAndAbove(t, from, value) ==
    LET s == Split(t, from, value, Fuel)
    IN /\ PartsOk(t, s, from)
       /\ \A v \in PartValues(s.t, s.left_sub) : ~OptLess(value, v)
       /\ \A v \in PartValues(s.t, s.right_sub) : OptLess(value, v)
C39_SplitPartitionsAtOrBelow ==
    [][(kind = "Treap" /\ last'.op = "insert") =>
          \A from \in SplitCalls(tree, last'.arg) :
              SplitUpToAndAbove(tree, from, last'.arg)]_vars
\* Inserts have filled a treap, and InsertRec called again with the element
\* inserted last splits at a node of two or more elements, the element
\* going to a left part of more than one node.
C39_SplitOfPresentKey ==
    /\ kind = "Treap"
    /\ last.op = "insert"
    /\ last.st = "ok"
    /\ tree.size_ = MaxKey
    /\ \E from \in SplitCalls(tree, last.arg) :
          LET s == Split(tree, from, last.arg, Fuel)
          IN /\ s.left_sub # Nil
             /\ s.right_sub # Nil
             /\ last.arg \in PartValues(s.t, s.left_sub)
             /\ Cardinality(Reach(s.t, {s.left_sub})) > 1
             /\ s.t # tree

\* ------------------------------------------------------------------------
\* The rotations of the red-black tree
\* ------------------------------------------------------------------------
\* A call LeftRotate(x) or RightRotate(x) on the heap t.
Rotation(rot, t, x) == [rot |-> rot, t |-> t, x |-> x]
\* The rotation is defined: x has the child that takes its place.
Defined(c) ==
    /\ c.x # Nil
    /\ IF c.rot = "L" THEN c.t.right_[c.x] # Nil ELSE c.t.left_[c.x] # Nil

\* The rotations one pass of the loop of FixBalance calls, in order, from on
\* parent's left (rb_tree.h:706-736): LeftRotate(parent) for a red sibling,
\* RightRotate(sibling) when only the sibling's left child is red, and
\* LeftRotate(parent).
RBFixLeftRotations(t, from, parent, sibling0) ==
    LET sibling_right0 == t.right_[sibling0]
        sibling_left0 == t.left_[sibling0]
        t1 == SetAux(SetAux(t, sibling0, Black), parent, Red)
        h1 == IF IsRed(t, sibling0) THEN RBLeftRotate(t1, parent) ELSE t
        sibling1 == RBSibling(h1, parent, from)
        black == BlackOrNull(h1, sibling_left0) /\ BlackOrNull(h1, sibling_right0)
        inner == ~black /\ BlackOrNull(h1, sibling_right0)
        t2 == SetAux(SetAux(h1, sibling1, Red), sibling_left0, Black)
        h2 == IF inner THEN RBRightRotate(t2, sibling1) ELSE h1
    IN (IF IsRed(t, sibling0) THEN <<Rotation("L", t1, parent)>> ELSE <<>>)
       \o (IF inner /\ ~Bad(t2) THEN <<Rotation("R", t2, sibling1)>> ELSE <<>>)
       \o (IF ~black /\ ~Bad(h2) /\ RBSibling(h2, parent, from) # Nil
           THEN <<Rotation("L", h2, parent)>> ELSE <<>>)
\* The same with from on parent's right (rb_tree.h:737-767).
RBFixRightRotations(t, from, parent, sibling0) ==
    LET sibling_right0 == t.right_[sibling0]
        sibling_left0 == t.left_[sibling0]
        t1 == SetAux(SetAux(t, sibling0, Black), parent, Red)
        h1 == IF IsRed(t, sibling0) THEN RBRightRotate(t1, parent) ELSE t
        sibling1 == RBSibling(h1, parent, from)
        black == /\ sibling1 # Nil
                 /\ BlackOrNull(h1, h1.left_[sibling1])
                 /\ BlackOrNull(h1, h1.right_[sibling1])
        inner == sibling1 # Nil /\ ~black /\ BlackOrNull(h1, sibling_left0)
        t2 == SetAux(SetAux(h1, sibling1, Red), sibling_right0, Black)
        h2 == IF inner THEN RBLeftRotate(t2, sibling1) ELSE h1
    IN (IF IsRed(t, sibling0) THEN <<Rotation("R", t1, parent)>> ELSE <<>>)
       \o (IF inner /\ ~Bad(t2) THEN <<Rotation("L", t2, sibling1)>> ELSE <<>>)
       \o (IF sibling1 # Nil /\ ~black /\ ~Bad(h2) /\ RBSibling(h2, parent, from) # Nil
           THEN <<Rotation("R", h2, parent)>> ELSE <<>>)

\* What FixBalance(from) does pass by pass: the rotations it calls, and
\* whether a pass dereferenced an absent sibling or nephew.
RECURSIVE RBFixBalanceTrace(_, _, _)
RBFixBalanceTrace(t, from, k) ==
    IF Bad(t) \/ from = Nil \/ k = 0 THEN [calls |-> <<>>, absent |-> FALSE]
    ELSE IF ~(~IsRed(t, from) /\ t.root_ # from) THEN [calls |-> <<>>, absent |-> FALSE]
    ELSE LET parent == t.parent_[from] IN
    IF parent = Nil THEN [calls |-> <<>>, absent |-> FALSE]
    ELSE LET sibling == RBSibling(t, parent, from) IN
    IF sibling = Nil THEN [calls |-> <<>>, absent |-> FALSE]
    ELSE LET left == t.left_[parent] = from
             r == IF left THEN RBFixLeftCase(t, from, parent, sibling)
                  ELSE RBFixRightCase(t, from, parent, sibling)
             calls == IF left THEN RBFixLeftRotations(t, from, parent, sibling)
                      ELSE RBFixRightRotations(t, from, parent, sibling)
             rest == IF r.ret THEN [calls |-> <<>>, absent |-> FALSE]
                     ELSE RBFixBalanceTrace(r.t, r.from, k - 1)
         IN [calls |-> calls \o rest.calls,
             absent |-> r.t.st = "ub" \/ rest.absent]

\* The call of FixBalance that EraseImplementation(delete_node) makes:
\* <<heap, from>>, none when it makes no call (rb_tree.h:509-600).
RBFixBalanceCall(t, delete_node) ==
    LET h == RBRemoveLast(t)
        parent == h.parent_[delete_node]
        l == h.left_[delete_node]
        r == h.right_[delete_node]
        swapped(x) ==
            LET p2 == x.parent_[delete_node]
                y == SetParent(RBReplaceChild(x, p2, delete_node, x.right_[delete_node]),
                               x.right_[delete_node], p2)
            IN IF Bad(x) THEN {}
               ELSE IF x.right_[delete_node] # Nil
               THEN IF ~Bad(y) /\ ~IsRed(y, y.right_[delete_node])
                    THEN {<<y, y.right_[delete_node]>>} ELSE {}
               ELSE IF ~IsRed(x, delete_node) THEN {<<x, delete_node>>} ELSE {}
    IN IF Bad(h) THEN {}
       ELSE IF r = Nil /\ l = Nil THEN {<<h, delete_node>>}
       ELSE IF r = Nil \/ l = Nil
       THEN LET child_node == IF r # Nil THEN r ELSE l
                y == SetParent(IF h.left_[parent] = delete_node
                               THEN SetLeft(h, parent, child_node)
                               ELSE SetRight(h, parent, child_node), child_node, parent)
            IN IF parent # Nil /\ ~IsRed(h, delete_node) /\ ~IsRed(h, child_node)
               THEN {<<y, child_node>>} ELSE {}
       ELSE LET swap_node == Leftmost(h, r, Fuel)
            IN IF swap_node = Lost THEN {}
               ELSE swapped(IF r = swap_node
                            THEN RBSwapWithChild(h, delete_node, swap_node)
                            ELSE RBSwapWithOffspring(h, delete_node, swap_node))

\* The traces of the calls of FixBalance an erase(value) on t makes.
RBEraseTraces(t, value) ==
    LET found == RBFind(t, value)
    IN IF found.st # "ok" \/ found.it = t.end_ THEN {}
       ELSE {RBFixBalanceTrace(c[1], c[2], 2 * Fuel) : c \in RBFixBalanceCall(t, found.it)}

\* C40: every LeftRotate(x) an erase on a red-black tree calls finds x with
\* a right child and every RightRotate(x) finds x with a left child, and no
\* pass of FixBalance dereferences an absent sibling or nephew.  (Insert
\* rebalances in Balancing, which calls neither rotation.)
C40_RotationsDefined ==
    [][(kind = "RB" /\ last'.op = "erase") =>
          \A tr \in RBEraseTraces(tree, last'.arg) :
              /\ \A i \in 1..Len(tr.calls) : Defined(tr.calls[i])
              /\ ~tr.absent]_vars

====
